---- MODULE Spec2Model ----
(***************************************************************************)
(* A model of lab_graber_bot: the aiogram conversation handlers of         *)
(* handlers/student.py, handlers/admin.py and handlers/common.py, the FSM  *)
(* storage they share (state tag + data bag per chat), the students and    *)
(* admin_sessions tables behind services/student.py and services/admin.py, *)
(* and the chat transcript of bot messages with their inline keyboards.    *)
(*                                                                         *)
(* A string is a sequence of atoms.  An atom is a one-character string     *)
(* ("a", " ", "_", "-") or a literal chunk of a callback identifier        *)
(* ("adm", "group"); the atom "_" is the separator str.split("_") cuts at. *)
(***************************************************************************)
EXTENDS Integers, Sequences, FiniteSets, TLC

VARIABLES
    state,          \* FSMContext state tag of each chat
    data,           \* FSMContext data bag of each chat (a dict: partial function)
    chat,           \* bot messages live in each chat: a set of [id, kind, kb]
    students,       \* rows of table students
    nextId,         \* AUTOINCREMENT counter of table students
    admin_sessions, \* table admin_sessions: [exists, rows]
    now,            \* datetime.utcnow(), in seconds
    ticks,          \* number of clock advances so far
    nextCookie,     \* next session cookie the server will issue
    srvCourses,     \* ids of the courses the grading server holds
    pend,           \* per chat: the handler suspended on an await, if any
    entered,        \* per chat: the field values typed since the last (re)start
    overwrote,      \* per chat: one of them replaced another value of its field
    polls,          \* the poll tasks lab_selected has created, oldest first
    last            \* the handler step just taken:
                    \* [op, c, from, arg, res, text, gw, guard]

vars == <<state, data, chat, students, nextId, admin_sessions, now, ticks,
          nextCookie, srvCourses, pend, entered, overwrote, polls, last>>

(***************************************************************************)
(* Bounds of the model.                                                    *)
(***************************************************************************)
MaxLive == 2        \* untracked bot messages /start may pile up in one chat
MaxInserts == 2     \* rows ever inserted into students
MaxTicks == 1       \* clock advances
MaxLogins == 2      \* cookies the server issues

(***************************************************************************)
(* Strings.                                                                *)
(***************************************************************************)
None == <<"None">>

IsSpace(a) == a = " "
IsAlpha(a) == a \in {"a", "b", "A", "B"}
upper(a) == CASE a = "a" -> "A" [] a = "b" -> "B" [] OTHER -> a
lower(a) == CASE a = "A" -> "a" [] a = "B" -> "b" [] OTHER -> a

RECURSIVE lstrip(_)
lstrip(s) == IF s # <<>> /\ IsSpace(Head(s)) THEN lstrip(Tail(s)) ELSE s

RECURSIVE rstrip(_)
rstrip(s) ==
    IF s # <<>> /\ IsSpace(s[Len(s)]) THEN rstrip(SubSeq(s, 1, Len(s) - 1)) ELSE s

strip(s) == rstrip(lstrip(s))

\* str.title(): a cased character is upper-cased after an uncased one (or at
\* the start) and lower-cased after a cased one.
title(s) ==
    [i \in 1..Len(s) |->
        IF IsAlpha(s[i])
        THEN IF i > 1 /\ IsAlpha(s[i - 1]) THEN lower(s[i]) ELSE upper(s[i])
        ELSE s[i]]

normalize_fio(text) == title(strip(text))

startswith(s, p) == Len(s) >= Len(p) /\ SubSeq(s, 1, Len(p)) = p

(***************************************************************************)
(* FSM states and the data bag.                                            *)
(***************************************************************************)
NoState == "None"
Reg ==
    [SURNAME |-> "Reg:SURNAME", NAME |-> "Reg:NAME", PATRONYMIC |-> "Reg:PATRONYMIC",
     GROUP |-> "Reg:GROUP", GITHUB |-> "Reg:GITHUB", CONFIRM |-> "Reg:CONFIRM"]

ORDER == <<Reg.SURNAME, Reg.NAME, Reg.PATRONYMIC, Reg.GROUP, Reg.GITHUB>>

IndexOf(seq, x) == CHOOSE i \in 1..Len(seq) : seq[i] = x

InOrder(s) == \E i \in 1..Len(ORDER) : ORDER[i] = s

PREV_first(s) == IF InOrder(s) /\ IndexOf(ORDER, s) > 1 THEN ORDER[1] ELSE NoState

\* PREV = {ORDER[i + 1]: ORDER[i] ...}; PREV.get(s) is None for SURNAME.
PREV(s) ==
    IF InOrder(s) /\ IndexOf(ORDER, s) > 1 THEN ORDER[IndexOf(ORDER, s) - 1] ELSE NoState

NextInOrder_skip(s) ==
    IF IndexOf(ORDER, s) + 2 <= Len(ORDER)
    THEN ORDER[IndexOf(ORDER, s) + 2]
    ELSE ORDER[IndexOf(ORDER, s) + 1]

\* nxt = ORDER[ORDER.index(cur) + 1]
NextInOrder(s) == ORDER[IndexOf(ORDER, s) + 1]

BOT_MSG_KEY == "__bot_msg_id"

EmptyBag == [k \in {} |-> 0]

Has(d, k) == k \in DOMAIN d

update_data_setdefault(d, upd) ==
    [k \in DOMAIN d \cup DOMAIN upd |-> IF k \in DOMAIN d THEN d[k] ELSE upd[k]]

\* FSMContext.update_data: dict.update of the stored bag, keys never removed.
update_data(d, upd) ==
    [k \in DOMAIN d \cup DOMAIN upd |-> IF k \in DOMAIN upd THEN upd[k] ELSE d[k]]

\* d[key] = value on a local copy of the bag
setitem(d, key, value) ==
    [k \in DOMAIN d \cup {key} |-> IF k = key THEN value ELSE d[k]]

\* dict.pop(key, None) on a local copy of the bag
pop(d, key) == [k \in DOMAIN d \ {key} |-> d[k]]

(***************************************************************************)
(* Callback identifiers and keyboards (keyboards/common.py).               *)
(***************************************************************************)
cb_reg_start == <<"reg", "_", "start">>
cb_reg_back == <<"reg", "_", "back">>
cb_reg_restart == <<"reg", "_", "restart">>
cb_reg_confirm == <<"reg", "_", "confirm">>
cb_menu_choose_course == <<"menu", "_", "choose", "_", "course">>
cb_menu_info == <<"menu", "_", "info">>

start_kb == {cb_reg_start}
nav_kb(include_back) ==
    IF include_back THEN {cb_reg_back, cb_reg_restart} ELSE {cb_reg_restart}
reg_confirm_kb == {cb_reg_confirm, cb_reg_restart}
main_menu_kb == {cb_menu_choose_course, cb_menu_info}

(***************************************************************************)
(* The chat transcript: send, delete, and the single-message renderer.     *)
(***************************************************************************)
Ids(ch) == {m.id : m \in ch}

\* A message id no live message carries and no stored reference names.
FreshId(ch, refs) ==
    CHOOSE n \in 1..(Cardinality(ch) + Cardinality(refs) + 1) :
        /\ n \notin Ids(ch) \cup refs
        /\ \A k \in 1..(n - 1) : k \in Ids(ch) \cup refs

Refs(d, p) ==
    (IF Has(d, BOT_MSG_KEY) THEN {d[BOT_MSG_KEY]} ELSE {})
        \cup (IF p.kind # "idle" THEN {p.msg} ELSE {})

delete_message(ch, id) == {m \in ch : m.id # id}

\* A live message keeps the kind of its text (text[1]) and its keyboard.
send_message(ch, id, text, kb) == ch \cup {[id |-> id, kind |-> text[1], kb |-> kb]}

\* _cleanup_prev: delete the message stored under BOT_MSG_KEY, errors ignored.
_cleanup_prev(d, ch) ==
    IF Has(d, BOT_MSG_KEY) THEN delete_message(ch, d[BOT_MSG_KEY]) ELSE ch

\* _send: _cleanup_prev, send_message, update_data({BOT_MSG_KEY: id}).
\* Yields the new bag and the new transcript.
_send(d, ch, p, text, kb) ==
    LET id == FreshId(ch, Refs(d, p))
    IN  [data |-> update_data(d, (BOT_MSG_KEY :> id)),
         chat |-> send_message(_cleanup_prev(d, ch), id, text, kb)]

\* What can go wrong inside one render, as f = <<v, get, del, send, upd, fb>>:
\* v: which _send runs ("student": handlers/student.py, "admin":
\* handlers/admin.py); get: state.get_data(); del: bot.delete_message
\* ("ok", "ignored": TelegramNotFound, TelegramBadRequest or
\* TelegramForbiddenError, "other": any other exception); send:
\* bot.send_message; upd: state.update_data; fb: the fallback send_message.
Failures ==
    {<<v, get, del, send, upd, fb>> :
        v \in {"student", "admin"}, get \in {"ok", "fail"},
        del \in {"ok", "ignored", "other"}, send \in {"ok", "fail"},
        upd \in {"ok", "fail"}, fb \in {"ok", "fail"}}

\* _cleanup_prev raises into _send: get_data failed, or the delete failed
\* with an exception _cleanup_prev does not catch.  handlers/student.py
\* catches the three Telegram errors, handlers/admin.py suppresses Exception.
_cleanup_prev_raises(d, f) ==
    \/ f[2] = "fail"
    \/ Has(d, BOT_MSG_KEY) /\ f[1] = "student" /\ f[3] = "other"

_send_failing_raise(d, ch, p, text, kb, f) ==
    LET ok == ~_cleanup_prev_raises(d, f) /\ f[4] = "ok" /\ f[5] = "ok"
        id == FreshId(ch, Refs(d, p))
    IN  [data |-> IF ok THEN update_data(d, (BOT_MSG_KEY :> id)) ELSE d,
         chat |-> IF ok \/ f[6] = "ok" THEN send_message(ch, id, text, kb) ELSE ch,
         res |-> IF ok THEN "sent" ELSE IF f[6] = "ok" THEN "fallback" ELSE "raised"]

\* _send under failures f: the try block (_cleanup_prev, send_message,
\* update_data) and, when it raised, the fallback send.  Yields the bag,
\* the transcript and how _send ended.
_send_failing(d, ch, p, text, kb, f) ==
    LET raises == _cleanup_prev_raises(d, f)
        ch1 == IF f[2] = "ok" /\ f[3] = "ok" THEN _cleanup_prev(d, ch) ELSE ch
        sent == ~raises /\ f[4] = "ok"
        id1 == FreshId(ch1, Refs(d, p))
        ch2 == IF sent THEN send_message(ch1, id1, text, kb) ELSE ch1
        ok == sent /\ f[5] = "ok"
        id2 == FreshId(ch2, Refs(d, p) \cup {id1})
    IN  [data |-> IF ok THEN update_data(d, (BOT_MSG_KEY :> id1)) ELSE d,
         chat |-> IF ~ok /\ f[6] = "ok" THEN send_message(ch2, id2, text, kb) ELSE ch2,
         res |-> IF ok THEN "sent" ELSE IF f[6] = "ok" THEN "fallback" ELSE "logged"]

(***************************************************************************)
(* Table students (models/base.py, services/student.py).                   *)
(***************************************************************************)
Student_raw(chat_id, d) ==
    [id |-> 0,
     chat_id |-> chat_id,
     surname |-> d[Reg.SURNAME],
     name |-> d[Reg.NAME],
     patronymic |-> d[Reg.PATRONYMIC],
     group_code |-> d[Reg.GROUP],
     github |-> d[Reg.GITHUB],
     courses |-> <<>>]

Student(chat_id, d) ==
    [id |-> 0,
     chat_id |-> chat_id,
     surname |-> d[Reg.SURNAME],
     name |-> d[Reg.NAME],
     patronymic |-> IF d[Reg.PATRONYMIC] = <<"-">> THEN None ELSE d[Reg.PATRONYMIC],
     group_code |-> d[Reg.GROUP],
     github |-> d[Reg.GITHUB],
     courses |-> <<>>]

Key(st) == <<st.surname, st.name, st.group_code, st.github>>

get_by_chat(rows, chat_id) == {r \in rows : r.chat_id = chat_id}

_check_existing_student_by_chat(rows, st) ==
    \E r \in rows : Key(r) = Key(st) /\ r.chat_id = st.chat_id

\* SELECT * FROM students WHERE surname=? AND name=? AND group_code=? AND github=?
_check_existing_student(rows, st) == \E r \in rows : Key(r) = Key(st)

UniqueOk_none(rows, st) == TRUE

\* chat_id INTEGER UNIQUE, UNIQUE(surname, name, group_code, github)
UniqueOk(rows, st) ==
    \A r \in rows : r.chat_id # st.chat_id /\ Key(r) # Key(st)

(***************************************************************************)
(* Initial state: empty FSM storage and chats, the tables as init_db       *)
(* leaves them.                                                            *)
(***************************************************************************)
Chats == {1, 2}

Idle == [kind |-> "idle", msg |-> 0, payload |-> <<>>]

Init ==
    /\ state = [c \in Chats |-> NoState]
    /\ data = [c \in Chats |-> EmptyBag]
    /\ chat = [c \in Chats |-> {}]
    /\ students = {}
    /\ nextId = 1
    /\ admin_sessions = [exists |-> FALSE, rows |-> <<>>]
    /\ now = 0
    /\ ticks = 0
    /\ nextCookie = 1
    /\ srvCourses = {}
    /\ pend = [c \in Chats |-> Idle]
    /\ entered = [c \in Chats |-> EmptyBag]
    /\ overwrote = [c \in Chats |-> FALSE]
    /\ polls = <<>>
    /\ last = [op |-> "init", c |-> 0, from |-> NoState, arg |-> <<>>, res |-> "",
               text |-> <<>>, gw |-> <<>>, guard |-> "none"]

\* The step just taken: handler op of chat c, entered in state tag state[c]
\* on input arg, ended with res, sent a message of the given text (<<>>: none),
\* issued the gateway calls gw and ran the auth guard with outcome guard
\* ("none": not run).
DoneA(op, c, arg, res, text, gw, guard) ==
    last' = [op |-> op, c |-> c, from |-> state[c], arg |-> arg, res |-> res,
             text |-> text, gw |-> gw, guard |-> guard]

Done(op, c, arg, res, text) == DoneA(op, c, arg, res, text, <<>>, "none")

\* The user can press button d of message mid: the message is live in the chat.
\* The updates of one chat are handled one after the other.
Pressable(c, mid, d) ==
    /\ pend[c].kind \in {"idle", "back"}
    /\ \E m \in chat[c] : m.id = mid /\ d \in m.kb

\* The user can send a message to the bot.
Sendable(c) == pend[c].kind = "idle"

AdminVars == <<admin_sessions, now, ticks, nextCookie, srvCourses>>

(***************************************************************************)
(* handlers/common.py: /start                                              *)
(***************************************************************************)
cmd_start(c) ==
    /\ Sendable(c)
    /\ Cardinality(chat[c]) < MaxLive
    /\ LET id == FreshId(chat[c], Refs(data[c], pend[c]))
           registered == get_by_chat(students, c) # {}
       IN  /\ chat' = [chat EXCEPT ![c] =
                  IF registered
                  THEN send_message(@, id, <<"main_menu">>, main_menu_kb)
                  ELSE send_message(@, id, <<"welcome">>, start_kb)]
           /\ Done("cmd_start", c, <<>>, "ok",
                   IF registered THEN <<"main_menu">> ELSE <<"welcome">>)
    /\ UNCHANGED <<polls, state, data, students, nextId, pend, entered, overwrote, AdminVars>>

(***************************************************************************)
(* handlers/student.py: the registration wizard                            *)
(***************************************************************************)
clear_keep(d) == d

\* FSMContext.clear(): the state tag is reset and the bag emptied.
clear(d) == EmptyBag

PROMPTS(s) == <<"prompt", s>>

Summary(s) == <<"summary", s[Reg.SURNAME], s[Reg.NAME], s[Reg.PATRONYMIC], s[Reg.GROUP], s[Reg.GITHUB]>>

HasAllFields(d) == \A i \in 1..Len(ORDER) : Has(d, ORDER[i])

\* What the wizard is to keep of text t typed in state s: surname, name and
\* patronymic trimmed and title-cased, group and GitHub handle trimmed.
Normalized(s, t) ==
    IF s \in {Reg.SURNAME, Reg.NAME, Reg.PATRONYMIC} THEN title(strip(t)) ELSE strip(t)

reg_start(c, mid) ==
    /\ Pressable(c, mid, cb_reg_start)
    /\ LET r == _send(clear(data[c]), delete_message(chat[c], mid), pend[c],
                      PROMPTS(Reg.SURNAME), nav_kb(FALSE))
       IN  /\ state' = [state EXCEPT ![c] = Reg.SURNAME]
           /\ data' = [data EXCEPT ![c] = r.data]
           /\ chat' = [chat EXCEPT ![c] = r.chat]
    /\ entered' = [entered EXCEPT ![c] = EmptyBag]
    /\ overwrote' = [overwrote EXCEPT ![c] = FALSE]
    /\ Done("reg_start", c, <<>>, "ok", PROMPTS(Reg.SURNAME))
    /\ UNCHANGED <<polls, students, nextId, pend, AdminVars>>

reg_steps(c, t) ==
    /\ Sendable(c)
    /\ InOrder(state[c])
    /\ LET cur_state == state[c]
           text == IF cur_state \in {Reg.SURNAME, Reg.NAME, Reg.PATRONYMIC}
                   THEN normalize_fio(strip(t))
                   ELSE strip(t)
           local == setitem(data[c], cur_state, text)
           stored == update_data(data[c], local)
       IN  IF cur_state # Reg.GITHUB
           THEN LET nxt == NextInOrder(cur_state)
                    r == _send(stored, chat[c], pend[c], PROMPTS(nxt), nav_kb(TRUE))
                IN  /\ state' = [state EXCEPT ![c] = nxt]
                    /\ data' = [data EXCEPT ![c] = r.data]
                    /\ chat' = [chat EXCEPT ![c] = r.chat]
                    /\ Done("reg_steps", c, t, "ok", PROMPTS(nxt))
           ELSE /\ state' = [state EXCEPT ![c] = Reg.CONFIRM]
                /\ IF HasAllFields(local)
                   THEN LET r == _send(stored, chat[c], pend[c], Summary(local),
                                       reg_confirm_kb)
                        IN  /\ data' = [data EXCEPT ![c] = r.data]
                            /\ chat' = [chat EXCEPT ![c] = r.chat]
                            /\ Done("reg_steps", c, t, "ok", Summary(local))
                   ELSE \* KeyError while the summary is built
                        /\ data' = [data EXCEPT ![c] = stored]
                        /\ chat' = chat
                        /\ Done("reg_steps", c, t, "KeyError", <<>>)
    /\ entered' = [entered EXCEPT ![c] = setitem(@, state[c], Normalized(state[c], t))]
    /\ overwrote' = [overwrote EXCEPT ![c] =
           @ \/ (Has(entered[c], state[c])
                    /\ entered[c][state[c]] # Normalized(state[c], t))]
    /\ UNCHANGED <<polls, students, nextId, pend, AdminVars>>

\* reg_back: data = get_data(); data.pop(BOT_MSG_KEY, None);
\* update_data(data).  The bag the store holds afterwards.
reg_back_bag(d) == update_data(d, pop(d, BOT_MSG_KEY))

reg_back(c, mid) ==
    /\ Pressable(c, mid, cb_reg_back)
    /\ LET cur_state == state[c]
           prev == PREV(cur_state)
       IN  IF ~InOrder(cur_state)
           THEN \* next(...) finds no state of ORDER: the handler raises
                /\ UNCHANGED <<state, data, chat>>
                /\ Done("reg_back", c, <<>>, "StopIteration", <<>>)
           ELSE IF prev = NoState
           THEN /\ UNCHANGED <<state, data, chat>>
                /\ Done("reg_back", c, <<>>, "noop", <<>>)
           ELSE LET stored == reg_back_bag(data[c])
                    r == _send(stored, delete_message(chat[c], mid), pend[c],
                               PROMPTS(prev), nav_kb(prev # Reg.SURNAME))
                IN  /\ state' = [state EXCEPT ![c] = prev]
                    /\ data' = [data EXCEPT ![c] = r.data]
                    /\ chat' = [chat EXCEPT ![c] = r.chat]
                    /\ Done("reg_back", c, <<>>, "ok", PROMPTS(prev))
    /\ UNCHANGED <<polls, students, nextId, pend, entered, overwrote, AdminVars>>

\* reg_back up to the await of cb.message.delete(): the state tag is read and
\* prev computed.  The handlers of other updates of the chat run while the
\* call is in flight.
reg_back_begin(c, mid) ==
    /\ Pressable(c, mid, cb_reg_back)
    /\ pend[c].kind = "idle"
    /\ InOrder(state[c])
    /\ PREV(state[c]) # NoState
    /\ pend' = [pend EXCEPT ![c] =
           [kind |-> "back", msg |-> mid, payload |-> PREV(state[c])]]
    /\ Done("reg_back_begin", c, <<>>, "deleting", <<>>)
    /\ UNCHANGED <<polls, state, data, chat, students, nextId, entered, overwrote, AdminVars>>

\* reg_back from the answer of cb.message.delete(): get_data, pop,
\* update_data, set_state(prev) with the prev computed earlier, _send.
reg_back_end(c) ==
    /\ pend[c].kind = "back"
    /\ LET prev == pend[c].payload
           mid == pend[c].msg
       IN  IF ~\E m \in chat[c] : m.id = mid
           THEN /\ UNCHANGED <<state, data, chat>>
                /\ Done("reg_back_end", c, <<>>, "raised", <<>>)
           ELSE LET r == _send(reg_back_bag(data[c]), delete_message(chat[c], mid),
                               Idle, PROMPTS(prev), nav_kb(prev # Reg.SURNAME))
                IN  /\ state' = [state EXCEPT ![c] = prev]
                    /\ data' = [data EXCEPT ![c] = r.data]
                    /\ chat' = [chat EXCEPT ![c] = r.chat]
                    /\ Done("reg_back_end", c, <<>>, "ok", PROMPTS(prev))
    /\ pend' = [pend EXCEPT ![c] = Idle]
    /\ UNCHANGED <<polls, students, nextId, entered, overwrote, AdminVars>>

reg_restart(c, mid) ==
    /\ Pressable(c, mid, cb_reg_restart)
    /\ LET cleared == clear(data[c])
           ch == _cleanup_prev(cleared, delete_message(chat[c], mid))
           id == FreshId(ch, Refs(cleared, pend[c]))
       IN  /\ state' = [state EXCEPT ![c] = NoState]
           /\ chat' = [chat EXCEPT ![c] = send_message(ch, id, <<"restart">>, start_kb)]
           /\ data' = [data EXCEPT ![c] = update_data(cleared, (BOT_MSG_KEY :> id))]
    /\ entered' = [entered EXCEPT ![c] = EmptyBag]
    /\ overwrote' = [overwrote EXCEPT ![c] = FALSE]
    /\ Done("reg_restart", c, <<>>, "ok", <<"restart">>)
    /\ UNCHANGED <<polls, students, nextId, pend, AdminVars>>

\* cb.message.delete() followed by cb.message.answer(text, kb)
Answer(ch0, d, mid, text, kb) ==
    LET ch == delete_message(ch0, mid)
    IN  send_message(ch, FreshId(ch, Refs(d, Idle)), text, kb)

Saving == {c \in Chats : pend[c].kind = "save"}

\* reg_confirm up to the SELECT of StudentRepository.save
reg_confirm(c, mid) ==
    /\ Pressable(c, mid, cb_reg_confirm)
    /\ nextId + Cardinality(Saving) <= MaxInserts
    /\ state' = [state EXCEPT ![c] = NoState]
    /\ data' = [data EXCEPT ![c] = clear(@)]
    /\ IF ~HasAllFields(data[c])
       THEN \* KeyError while the Student is built
            /\ UNCHANGED <<chat, pend>>
            /\ Done("reg_confirm", c, <<>>, "KeyError", <<>>)
       ELSE LET student == Student(c, data[c])
            IN  IF _check_existing_student(students, student)
                THEN \* ValueError
                     /\ chat' = [chat EXCEPT ![c] =
                                    Answer(@, EmptyBag, mid, <<"duplicate">>, start_kb)]
                     /\ pend' = pend
                     /\ Done("reg_confirm", c, <<>>, "duplicate", <<"duplicate">>)
                ELSE /\ pend' = [pend EXCEPT ![c] =
                            [kind |-> "save", msg |-> mid, payload |-> student]]
                     /\ chat' = chat
                     /\ Done("reg_confirm", c, <<>>, "saving", <<>>)
    /\ UNCHANGED <<polls, students, nextId, entered, overwrote, AdminVars>>

\* reg_confirm from the INSERT of StudentRepository.save to its end
reg_confirm_insert(c) ==
    /\ pend[c].kind = "save"
    /\ LET student == pend[c].payload
           mid == pend[c].msg
           ok == UniqueOk(students, student)
       IN  /\ IF ok
              THEN /\ students' = students \cup {[student EXCEPT !.id = nextId]}
                   /\ nextId' = nextId + 1
              ELSE UNCHANGED <<students, nextId>>
           /\ chat' = [chat EXCEPT ![c] =
                  IF ok
                  THEN Answer(@, data[c], mid, <<"registered">>, main_menu_kb)
                  ELSE Answer(@, data[c], mid, <<"failure">>, start_kb)]
           /\ Done("reg_confirm_insert", c, <<>>,
                   IF ok THEN "success" ELSE "failure",
                   IF ok THEN <<"registered">> ELSE <<"failure">>)
    /\ pend' = [pend EXCEPT ![c] = Idle]
    /\ UNCHANGED <<polls, state, data, entered, overwrote, AdminVars>>

(***************************************************************************)
(* The registration wizard of one chat.                                    *)
(***************************************************************************)
\* What the user types in each step: " aB" anywhere, "-" where told apart.
WizardTexts(s) ==
    IF s \in {Reg.NAME, Reg.GROUP}
    THEN {<<" ", "a", "B">>}
    ELSE {<<" ", "a", "B">>, <<"-">>}

\* the chat a single user is followed in
UserChat == CHOOSE c \in Chats : \A d \in Chats : c <= d

NextReg ==
    \/ cmd_start(UserChat)
    \/ \E mid \in Ids(chat[UserChat]) : reg_start(UserChat, mid)
    \/ \E t \in WizardTexts(state[UserChat]) : reg_steps(UserChat, t)
    \/ \E mid \in Ids(chat[UserChat]) : reg_back(UserChat, mid)
    \/ \E mid \in Ids(chat[UserChat]) : reg_restart(UserChat, mid)
    \/ \E mid \in Ids(chat[UserChat]) : reg_confirm(UserChat, mid)
    \/ reg_confirm_insert(UserChat)

SpecReg == Init /\ [][NextReg]_vars

\* The wizard with reg_back in two steps: /start and reg_start are handled
\* while the delete call of a reg_back is in flight.
NextBack ==
    \/ cmd_start(UserChat)
    \/ \E mid \in Ids(chat[UserChat]) : reg_start(UserChat, mid)
    \/ \E t \in WizardTexts(state[UserChat]) : reg_steps(UserChat, t)
    \/ \E mid \in Ids(chat[UserChat]) : reg_back_begin(UserChat, mid)
    \/ reg_back_end(UserChat)

SpecBack == Init /\ [][NextBack]_vars

(***************************************************************************)
(* Registrations of two chats against the one students table.  Each chat   *)
(* sends /start into an empty chat, the first one also on top of earlier   *)
(* welcomes, and types " aB" in every step, or "-" as its GitHub handle.   *)
(***************************************************************************)
RegistryTexts(s) ==
    IF s = Reg.GITHUB THEN {<<" ", "a", "B">>, <<"-">>} ELSE {<<" ", "a", "B">>}

NextRegistry ==
    \E c \in Chats :
        \/ /\ chat[c] = {} \/ (c = UserChat /\ \A m \in chat[c] : m.kind = "welcome")
           /\ cmd_start(c)
        \/ \E mid \in Ids(chat[c]) : reg_start(c, mid)
        \/ \E t \in RegistryTexts(state[c]) : reg_steps(c, t)
        \/ \E mid \in Ids(chat[c]) : reg_back(c, mid)
        \/ \E mid \in Ids(chat[c]) : reg_restart(c, mid)
        \/ \E mid \in Ids(chat[c]) : reg_confirm(c, mid)
        \/ reg_confirm_insert(c)

SpecRegistry == Init /\ [][NextRegistry]_vars

(***************************************************************************)
(* Strings of the admin panel: str(), int(), split, join, replace, sorted. *)
(***************************************************************************)
Digits == <<"0", "1", "2", "3">>

\* str(i) of a small index
str(i) == <<Digits[i + 1]>>

IsInt(s) == Len(s) = 1 /\ \E i \in 1..Len(Digits) : Digits[i] = s[1]

\* int(s); the caller asks IsInt(s) first, int() raises ValueError otherwise
int(s) == (CHOOSE i \in 1..Len(Digits) : Digits[i] = s[1]) - 1

\* s.split("_")
RECURSIVE split(_)
split(s) ==
    IF \E i \in 1..Len(s) : s[i] = "_"
    THEN LET i == CHOOSE j \in 1..Len(s) :
                      s[j] = "_" /\ \A k \in 1..(j - 1) : s[k] # "_"
         IN  <<SubSeq(s, 1, i - 1)>> \o split(SubSeq(s, i + 1, Len(s)))
    ELSE <<s>>

\* "_".join(parts)
RECURSIVE join(_)
join(parts) ==
    IF parts = <<>> THEN <<>>
    ELSE IF Len(parts) = 1 THEN parts[1]
    ELSE parts[1] \o <<"_">> \o join(Tail(parts))

\* s.replace(old, ""): every occurrence of old is cut out, left to right
RECURSIVE replace(_, _)
replace(s, old) ==
    IF s = <<>> THEN <<>>
    ELSE IF startswith(s, old) THEN replace(SubSeq(s, Len(old) + 1, Len(s)), old)
    ELSE <<Head(s)>> \o replace(Tail(s), old)

\* s.split(): the words between runs of whitespace
RECURSIVE words(_)
words(s) ==
    LET t == lstrip(s)
    IN  IF t = <<>> THEN <<>>
        ELSE LET n == CHOOSE j \in 1..Len(t) :
                          /\ \A k \in 1..j : ~IsSpace(t[k])
                          /\ j = Len(t) \/ IsSpace(t[j + 1])
             IN  <<SubSeq(t, 1, n)>> \o words(SubSeq(t, n + 1, Len(t)))

\* the code point order of the characters in use
Ord(a) ==
    CASE a = " " -> 32 [] a = "-" -> 45
      [] a = "0" -> 48 [] a = "1" -> 49 [] a = "2" -> 50 [] a = "3" -> 51
      [] a = "A" -> 65 [] a = "B" -> 66 [] a = "_" -> 95
      [] a = "a" -> 97 [] a = "b" -> 98 [] OTHER -> 128

\* s < t as Python compares strings
RECURSIVE StrLess(_, _)
StrLess(s, t) ==
    IF t = <<>> THEN FALSE
    ELSE IF s = <<>> THEN TRUE
    ELSE IF Head(s) # Head(t) THEN Ord(Head(s)) < Ord(Head(t))
    ELSE StrLess(Tail(s), Tail(t))

\* sorted(xs) of a list of strings
RECURSIVE sorted(_)
sorted(xs) ==
    IF xs = <<>> THEN <<>>
    ELSE LET i == CHOOSE j \in 1..Len(xs) :
                      /\ \A k \in 1..Len(xs) : ~StrLess(xs[k], xs[j])
                      /\ \A k \in 1..(j - 1) : xs[k] # xs[j]
         IN  <<xs[i]>> \o sorted([k \in 1..(Len(xs) - 1) |->
                                      IF k < i THEN xs[k] ELSE xs[k + 1]])

\* the elements of a set of strings as a sorted list
RECURSIVE sorted_set(_)
sorted_set(S) ==
    IF S = {} THEN <<>>
    ELSE LET x == CHOOSE y \in S : \A z \in S : ~StrLess(z, y)
         IN  <<x>> \o sorted_set(S \ {x})

(***************************************************************************)
(* Admin panel: FSM states (states/admin.py), callback identifiers and     *)
(* keyboards (keyboards/admin.py).                                         *)
(***************************************************************************)
AdminLogin == [LOGIN |-> "AdminLogin:LOGIN", PASSWORD |-> "AdminLogin:PASSWORD"]

AdminMenu ==
    [MAIN |-> "AdminMenu:MAIN", GROUPS |-> "AdminMenu:GROUPS",
     STUDENTS |-> "AdminMenu:STUDENTS", STUDENT_INFO |-> "AdminMenu:STUDENT_INFO",
     COURSES |-> "AdminMenu:COURSES", COURSE_INFO |-> "AdminMenu:COURSE_INFO",
     EDIT |-> "AdminMenu:EDIT", CONFIRM |-> "AdminMenu:CONFIRM"]

cb_admin_cancel == <<"admin", "_", "cancel">>
cb_admin_logout == <<"admin", "_", "logout">>
cb_admin_groups == <<"admin", "_", "groups">>
cb_admin_courses == <<"admin", "_", "courses">>
cb_admin_back == <<"admin", "_", "back">>
cb_admin_back_groups == <<"admin", "_", "back", "_", "groups">>
cb_admin_back_courses == <<"admin", "_", "back", "_", "courses">>
cb_empty_list == <<"empty", "_", "list">>
cb_adm_group_ == <<"adm", "_", "group", "_">>
cb_adm_back_students_ == <<"adm", "_", "back", "_", "students", "_">>
cb_adm_student_ == <<"adm", "_", "student", "_">>
cb_adm_del_st_ == <<"adm", "_", "del", "_", "st", "_">>
cb_adm_del_st_yes_ == <<"adm", "_", "del", "_", "st", "_", "yes", "_">>
cb_adm_del_st_yes_confirm == <<"adm", "_", "del", "_", "st", "_", "yes", "_", "confirm">>
cb_adm_del_group_ == <<"adm", "_", "del", "_", "group", "_">>
cb_adm_del_group_yes_ == <<"adm", "_", "del", "_", "group", "_", "yes", "_">>
cb_adm_course_ == <<"adm", "_", "course", "_">>
cb_adm_course_add == <<"adm", "_", "course", "_", "add">>
cb_adm_course_del_ == <<"adm", "_", "course", "_", "del", "_">>
cb_adm_course_del_yes_ == <<"adm", "_", "course", "_", "del", "_", "yes", "_">>

login_back_kb_panel == {cb_admin_cancel, cb_admin_groups}

login_back_kb == {cb_admin_cancel}

admin_main_kb == {cb_admin_courses, cb_admin_groups, cb_admin_logout}

groups_kb(groups) ==
    (IF groups = <<>> THEN {cb_empty_list}
     ELSE {cb_adm_group_ \o groups[i] : i \in 1..Len(groups)})
        \cup {cb_admin_back}

students_kb(studs, group) ==
    (IF studs = <<>> THEN {cb_empty_list}
     ELSE {cb_adm_student_ \o group \o <<"_">> \o str(i - 1) : i \in 1..Len(studs)})
        \cup {cb_adm_del_group_ \o group, cb_admin_back_groups}

student_info_kb(group, idx) ==
    {cb_adm_del_st_ \o group \o <<"_">> \o str(idx), cb_adm_back_students_ \o group}

confirm_kb(yes_cb) == {yes_cb, cb_admin_cancel}

courses_kb(courses) ==
    (IF courses = <<>> THEN {cb_empty_list}
     ELSE {cb_adm_course_ \o courses[i] : i \in 1..Len(courses)})
        \cup {cb_adm_course_add, cb_admin_back}

course_actions_kb(cid) == {cb_adm_course_del_ \o cid, cb_admin_back_courses}

upload_kb == {cb_admin_back_courses}

\* The handler of handlers/admin.py a callback identifier is dispatched to:
\* the first one, in the order of registration, whose filter accepts it.
Route(d) ==
    IF d = cb_admin_cancel THEN "admin_cancel"
    ELSE IF d = cb_admin_logout THEN "admin_logout"
    ELSE IF d = cb_admin_groups THEN "admin_groups"
    ELSE IF startswith(d, cb_adm_group_) THEN "admin_group_open"
    ELSE IF d = cb_admin_back_groups THEN "back_groups"
    ELSE IF startswith(d, cb_adm_back_students_) THEN "back_students"
    ELSE IF d = cb_empty_list THEN "empty_list_callback"
    ELSE IF d = cb_admin_back THEN "back_to_main"
    ELSE IF startswith(d, cb_adm_student_) THEN "admin_student"
    ELSE IF d = cb_adm_del_st_yes_confirm THEN "del_student"
    ELSE IF startswith(d, cb_adm_del_st_) /\ ~startswith(d, cb_adm_del_st_yes_)
         THEN "confirm_del_student"
    ELSE IF startswith(d, cb_adm_del_group_) /\ ~startswith(d, cb_adm_del_group_yes_)
         THEN "confirm_del_group"
    ELSE IF startswith(d, cb_adm_del_group_yes_) THEN "del_group"
    ELSE IF d = cb_admin_courses THEN "admin_courses"
    ELSE IF d = cb_admin_back_courses THEN "back_courses"
    ELSE IF startswith(d, cb_adm_course_del_) /\ ~startswith(d, cb_adm_course_del_yes_)
         THEN "confirm_course_del"
    ELSE IF startswith(d, cb_adm_course_del_yes_) THEN "do_course_del"
    ELSE IF d = cb_adm_course_add THEN "add_course_start"
    ELSE IF startswith(d, cb_adm_course_) THEN "course_info"
    ELSE "none"

\* The user presses button d of message mid and the press goes to handler h.
Pressed(c, mid, d, h) == Pressable(c, mid, d) /\ Route(d) = h

(***************************************************************************)
(* Table admin_sessions (services/admin.py, AdminSessionRepo), the clock,  *)
(* and the queries of services/student.py the panel uses.                  *)
(***************************************************************************)
ttl_sec == 3600

\* SELECT cookie, expires_at FROM admin_sessions LIMIT 1 (<<>>: None)
get_cookie(tbl) == IF tbl.rows = <<>> THEN <<>> ELSE <<tbl.rows[1]>>

save_cookie_append(rows, cookie, t) ==
    Append(rows, [cookie |-> cookie, expires |-> t + ttl_sec])

\* DELETE FROM admin_sessions; INSERT ...; commit
save_cookie(rows, cookie, t) == <<[cookie |-> cookie, expires |-> t + ttl_sec]>>

\* _ensure_admin: the outcome of the guard and the rows it leaves.
\* "raised": the table is not there yet and get_cookie raises.
_ensure_admin(tbl, t) ==
    IF ~tbl.exists THEN [res |-> "raised", rows |-> tbl.rows]
    ELSE IF get_cookie(tbl) = <<>> THEN [res |-> "relogin", rows |-> tbl.rows]
    ELSE IF get_cookie(tbl)[1].expires <= t THEN [res |-> "expired", rows |-> <<>>]
    ELSE [res |-> "passed", rows |-> tbl.rows]

\* A request of AdminAPI carrying the stored token.
Call(name, tok, t) ==
    [call |-> name, cookie |-> tok.cookie, expires |-> tok.expires, at |-> t]

\* the rows of a set of rows in rowid order
RECURSIVE by_rowid(_)
by_rowid(rows) ==
    IF rows = {} THEN <<>>
    ELSE LET r == CHOOSE x \in rows : \A y \in rows : x.id <= y.id
         IN  <<r>> \o by_rowid(rows \ {r})

\* SELECT * FROM students WHERE group_code=?
by_group(rows, group) == by_rowid({r \in rows : r.group_code = group})

\* f"{s.surname} {s.name} {s.patronymic or ''}".strip()
fio_of(r) ==
    strip(r.surname \o <<" ">> \o r.name \o <<" ">>
            \o (IF r.patronymic = None THEN <<>> ELSE r.patronymic))

\* sorted([fio of s for s in await repo.by_group(group)])
group_fios(rows, group) ==
    sorted([i \in 1..Len(by_group(rows, group)) |-> fio_of(by_group(rows, group)[i])])

\* sorted({st.group_code for st in await repo.all()})
group_codes(rows) == sorted_set({r.group_code : r \in rows})

\* get_by_fio: the rows matching group, first and second word of fio
get_by_fio(rows, group, fio) ==
    IF Len(words(fio)) < 2 THEN <<>>
    ELSE by_rowid({r \in rows : /\ r.group_code = group
                                /\ r.surname = words(fio)[1]
                                /\ r.name = words(fio)[2]})

delete_student(rows, id) == {r \in rows : r.id # id}

delete_group_all(rows, group) == {}

\* DELETE FROM students WHERE group_code=?
delete_group(rows, group) == {r \in rows : r.group_code # group}

(***************************************************************************)
(* handlers/admin.py: login, logout and the auth guard                     *)
(***************************************************************************)
\* The credentials the grading server accepts.
GoodLogin == <<"r">>
GoodPassword == <<"p">>

\* POST /api/admin/login answers 200 with a cookie
Accepts(login, password) == login = GoodLogin /\ password = GoodPassword

LoginCall == <<[call |-> "login", cookie |-> 0, expires |-> 0, at |-> now]>>

NotReg == <<students, nextId, entered, overwrote>>

\* set_state(st) followed by _send(state, obj, text, kb) on bag d
Render(c, st, d, text, kb) ==
    LET r == _send(d, chat[c], pend[c], text, kb)
    IN  /\ state' = [state EXCEPT ![c] = st]
        /\ data' = [data EXCEPT ![c] = r.data]
        /\ chat' = [chat EXCEPT ![c] = r.chat]

Guarded_main(op, c, arg, body) ==
    LET g == _ensure_admin(admin_sessions, now)
    IN  /\ admin_sessions' = [admin_sessions EXCEPT !.rows = g.rows]
        /\ IF g.res = "passed" THEN body
           ELSE /\ Render(c, AdminMenu.MAIN, data[c], <<"panel">>, {})
                /\ DoneA(op, c, arg, g.res, <<>>, <<>>, g.res)

\* if not await _ensure_admin(cb, db): return
Guarded(op, c, arg, body) ==
    LET g == _ensure_admin(admin_sessions, now)
    IN  /\ admin_sessions' = [admin_sessions EXCEPT !.rows = g.rows]
        /\ IF g.res = "passed" THEN body
           ELSE /\ UNCHANGED <<state, data, chat>>
                /\ DoneA(op, c, arg, g.res, <<>>, <<>>, g.res)

admin_entry(c) ==
    /\ Sendable(c)
    /\ Cardinality(chat[c]) < MaxLive
    /\ Render(c, AdminLogin.LOGIN, clear(data[c]), <<"login_prompt">>, login_back_kb)
    /\ entered' = [entered EXCEPT ![c] = EmptyBag]
    /\ overwrote' = [overwrote EXCEPT ![c] = FALSE]
    /\ Done("admin_entry", c, <<>>, "ok", <<"login_prompt">>)
    /\ UNCHANGED <<polls, students, nextId, pend, AdminVars>>

admin_login_step(c, t) ==
    /\ Sendable(c)
    /\ state[c] = AdminLogin.LOGIN
    /\ Render(c, AdminLogin.PASSWORD, update_data(data[c], ("login" :> strip(t))),
              <<"password_prompt">>, login_back_kb)
    /\ Done("admin_login_step", c, t, "ok", <<"password_prompt">>)
    /\ UNCHANGED <<polls, NotReg, pend, AdminVars>>

\* admin_password_step up to the answer of api.login; on a rejection, to its end
admin_password_step(c, t) ==
    /\ Sendable(c)
    /\ state[c] = AdminLogin.PASSWORD
    /\ IF ~Has(data[c], "login")
       THEN /\ UNCHANGED <<state, data, chat, pend, nextCookie>>
            /\ Done("admin_password_step", c, t, "KeyError", <<>>)
       ELSE IF Accepts(data[c]["login"], strip(t))
       THEN /\ nextCookie <= MaxLogins
            /\ nextCookie' = nextCookie + 1
            /\ pend' = [pend EXCEPT ![c] =
                   [kind |-> "login", msg |-> 0, payload |-> nextCookie]]
            /\ UNCHANGED <<state, data, chat>>
            /\ DoneA("admin_password_step", c, t, "accepted", <<>>, LoginCall, "none")
       ELSE /\ Render(c, state[c], data[c], <<"login_error">>, login_back_kb)
            /\ UNCHANGED <<pend, nextCookie>>
            /\ DoneA("admin_password_step", c, t, "rejected", <<"login_error">>,
                     LoginCall, "none")
    /\ UNCHANGED <<polls, NotReg, admin_sessions, now, ticks, srvCourses>>

\* admin_password_step: repo.ensure_table() and repo.save_cookie(cookie)
admin_password_save(c) ==
    /\ pend[c].kind = "login"
    /\ admin_sessions' = [exists |-> TRUE,
                          rows |-> save_cookie(admin_sessions.rows, pend[c].payload, now)]
    /\ pend' = [pend EXCEPT ![c] = [@ EXCEPT !.kind = "saved"]]
    /\ Done("admin_password_save", c, <<pend[c].payload>>, "ok", <<>>)
    /\ UNCHANGED <<polls, state, data, chat, NotReg, now, ticks, nextCookie, srvCourses>>

\* admin_password_step from set_state(AdminMenu.MAIN) to its end
admin_password_done(c) ==
    /\ pend[c].kind = "saved"
    /\ Render(c, AdminMenu.MAIN, data[c], <<"panel">>, admin_main_kb)
    /\ pend' = [pend EXCEPT ![c] = Idle]
    /\ Done("admin_password_done", c, <<pend[c].payload>>, "ok", <<"panel">>)
    /\ UNCHANGED <<polls, NotReg, AdminVars>>

\* admin_logout up to the answer of api.logout
admin_logout(c, mid) ==
    /\ Pressed(c, mid, cb_admin_logout, "admin_logout")
    /\ IF ~admin_sessions.exists
       THEN /\ pend' = pend
            /\ DoneA("admin_logout", c, <<>>, "raised", <<>>, <<>>, "none")
       ELSE /\ pend' = [pend EXCEPT ![c] =
                   [kind |-> "logout", msg |-> mid, payload |-> get_cookie(admin_sessions)]]
            /\ DoneA("admin_logout", c, <<>>, "ok", <<>>,
                     IF get_cookie(admin_sessions) = <<>> THEN <<>>
                     ELSE <<Call("logout", get_cookie(admin_sessions)[1], now)>>,
                     "none")
    /\ UNCHANGED <<polls, state, data, chat, NotReg, AdminVars>>

\* What POST /api/admin/logout can do: answer 200, answer another status,
\* or fail in the transport (aiohttp.ClientError, asyncio.TimeoutError)
LogoutOutcomes == {"ok", "status", "failure"}

\* admin_logout from the answer of api.logout: repo.clear() and
\* cb.message.delete().  AdminAPI.logout catches nothing, so a failure of
\* the transport leaves the handler as an exception before repo.clear().
admin_logout_clear(c, o) ==
    /\ pend[c].kind = "logout"
    /\ pend[c].payload = <<>> => o = "ok"
    /\ IF o = "failure"
       THEN /\ UNCHANGED <<admin_sessions, chat>>
            /\ Done("admin_logout_clear", c, <<>>, "ClientError", <<>>)
       ELSE /\ admin_sessions' = [admin_sessions EXCEPT !.rows = <<>>]
            /\ chat' = [chat EXCEPT ![c] = delete_message(@, pend[c].msg)]
            /\ Done("admin_logout_clear", c, <<>>, "ok", <<>>)
    /\ pend' = [pend EXCEPT ![c] = Idle]
    /\ UNCHANGED <<polls, state, data, NotReg, now, ticks, nextCookie, srvCourses>>

\* the clock advances by d seconds
Tick(d) ==
    /\ ticks < MaxTicks
    /\ now' = now + d
    /\ ticks' = ticks + 1
    /\ last' = [op |-> "Tick", c |-> 0, from |-> NoState, arg |-> <<>>, res |-> "",
                text |-> <<>>, gw |-> <<>>, guard |-> "none"]
    /\ UNCHANGED <<polls, state, data, chat, NotReg, admin_sessions, nextCookie, srvCourses, pend>>

(***************************************************************************)
(* handlers/admin.py: groups and students                                  *)
(***************************************************************************)
GroupsText(rows) == <<"groups", group_codes(rows)>>

StudentsText(rows, group) == <<"students", group, group_fios(rows, group)>>

\* update_data(cur_group, students), set_state(STUDENTS), _send of the list
show_students(c, rows, group) ==
    Render(c, AdminMenu.STUDENTS,
           update_data(data[c], ("cur_group" :> group)
                                    @@ ("students" :> group_fios(rows, group))),
           StudentsText(rows, group), students_kb(group_fios(rows, group), group))

show_groups(c, rows) ==
    Render(c, AdminMenu.GROUPS, data[c], GroupsText(rows), groups_kb(group_codes(rows)))

show_main(c) == Render(c, AdminMenu.MAIN, data[c], <<"panel">>, admin_main_kb)

admin_groups(c, mid) ==
    /\ Pressed(c, mid, cb_admin_groups, "admin_groups")
    /\ Guarded("admin_groups", c, <<>>,
           /\ show_groups(c, students)
           /\ DoneA("admin_groups", c, <<>>, "ok", GroupsText(students), <<>>, "passed"))
    /\ UNCHANGED <<polls, NotReg, pend, now, ticks, nextCookie, srvCourses>>

admin_group_open(c, mid, d) ==
    /\ Pressed(c, mid, d, "admin_group_open")
    /\ LET group == join(SubSeq(split(d), 3, Len(split(d))))
       IN  /\ show_students(c, students, group)
           /\ DoneA("admin_group_open", c, d, "ok", StudentsText(students, group),
                    <<>>, "none")
    /\ UNCHANGED <<polls, NotReg, pend, AdminVars>>

back_groups(c, mid) ==
    /\ Pressed(c, mid, cb_admin_back_groups, "back_groups")
    /\ show_groups(c, students)
    /\ DoneA("back_groups", c, <<>>, "ok", GroupsText(students), <<>>, "none")
    /\ UNCHANGED <<polls, NotReg, pend, AdminVars>>

back_students(c, mid, d) ==
    /\ Pressed(c, mid, d, "back_students")
    /\ LET group == join(SubSeq(split(d), 4, Len(split(d))))
       IN  /\ show_students(c, students, group)
           /\ DoneA("back_students", c, d, "ok", StudentsText(students, group),
                    <<>>, "none")
    /\ UNCHANGED <<polls, NotReg, pend, AdminVars>>

empty_list_callback(c, mid) ==
    /\ Pressed(c, mid, cb_empty_list, "empty_list_callback")
    /\ Done("empty_list_callback", c, <<>>, "alert", <<>>)
    /\ UNCHANGED <<polls, state, data, chat, NotReg, pend, AdminVars>>

back_to_main(c, mid) ==
    /\ Pressed(c, mid, cb_admin_back, "back_to_main")
    /\ show_main(c)
    /\ Done("back_to_main", c, <<>>, "ok", <<"panel">>)
    /\ UNCHANGED <<polls, NotReg, pend, AdminVars>>

admin_student(c, mid, d) ==
    /\ Pressed(c, mid, d, "admin_student")
    /\ LET parts == split(d)
           group == join(SubSeq(parts, 3, Len(parts) - 1))
           studs == data[c]["students"]
           idx == int(parts[Len(parts)])
           fio == studs[idx + 1]
           found == get_by_fio(students, group, fio)
           text == <<"student", fio, found[1].group_code, found[1].github>>
       IN  IF  \/ ~IsInt(parts[Len(parts)])
               \/ ~Has(data[c], "students")
               \/ idx >= Len(studs)
               \/ found = <<>>
           THEN \* ValueError, KeyError, IndexError or TypeError
                /\ UNCHANGED <<state, data, chat>>
                /\ DoneA("admin_student", c, d, "raised", <<>>, <<>>, "none")
           ELSE /\ Render(c, AdminMenu.STUDENT_INFO,
                          update_data(data[c], ("sel_idx" :> idx)),
                          text, student_info_kb(group, idx))
                /\ DoneA("admin_student", c, d, "ok", text, <<>>, "none")
    /\ UNCHANGED <<polls, NotReg, pend, AdminVars>>

del_student(c, mid) ==
    /\ Pressed(c, mid, cb_adm_del_st_yes_confirm, "del_student")
    /\ IF ~Has(data[c], "cur_group") \/ ~Has(data[c], "del_student_idx")
       THEN /\ UNCHANGED <<state, data, chat, students>>
            /\ DoneA("del_student", c, <<>>, "no_data", <<>>, <<>>, "none")
       ELSE LET group == data[c]["cur_group"]
                idx == data[c]["del_student_idx"]
                studs == by_group(students, group)
                left == delete_student(students, studs[idx + 1].id)
            IN  IF idx < Len(studs)
                THEN /\ students' = left
                     /\ show_students(c, left, group)
                     /\ DoneA("del_student", c, <<studs[idx + 1].id>>, "ok",
                              StudentsText(left, group), <<>>, "none")
                ELSE /\ UNCHANGED <<state, data, chat, students>>
                     /\ DoneA("del_student", c, <<>>, "not_found", <<>>, <<>>, "none")
    /\ UNCHANGED <<polls, nextId, entered, overwrote, pend, AdminVars>>

confirm_del_student(c, mid, d) ==
    /\ Pressed(c, mid, d, "confirm_del_student")
    /\ LET parts == split(d)
           idx == int(parts[5])
           studs == data[c]["students"]
           text == <<"confirm_del_student", studs[idx + 1]>>
       IN  IF Len(parts) < 5
           THEN /\ UNCHANGED <<state, data, chat>>
                /\ Done("confirm_del_student", c, d, "bad_data", <<>>)
           ELSE IF ~IsInt(parts[5]) \/ ~Has(data[c], "students")
           THEN \* ValueError or KeyError
                /\ UNCHANGED <<state, data, chat>>
                /\ Done("confirm_del_student", c, d, "raised", <<>>)
           ELSE IF idx < Len(studs)
           THEN /\ Render(c, AdminMenu.CONFIRM,
                          update_data(data[c], ("del_student_idx" :> idx)),
                          text, confirm_kb(cb_adm_del_st_yes_confirm))
                /\ Done("confirm_del_student", c, d, "ok", text)
           ELSE /\ UNCHANGED <<state, data, chat>>
                /\ Done("confirm_del_student", c, d, "not_found", <<>>)
    /\ UNCHANGED <<polls, NotReg, pend, AdminVars>>

confirm_del_group(c, mid, d) ==
    /\ Pressed(c, mid, d, "confirm_del_group")
    /\ LET group == replace(d, cb_adm_del_group_)
           text == <<"confirm_del_group", group>>
       IN  /\ Render(c, AdminMenu.CONFIRM, update_data(data[c], ("del_group" :> group)),
                     text, confirm_kb(cb_adm_del_group_yes_ \o group))
           /\ Done("confirm_del_group", c, d, "ok", text)
    /\ UNCHANGED <<polls, NotReg, pend, AdminVars>>

del_group(c, mid, d) ==
    /\ Pressed(c, mid, d, "del_group")
    /\ LET group == replace(d, cb_adm_del_group_yes_)
           left == delete_group(students, group)
       IN  /\ students' = left
           /\ show_groups(c, left)
           /\ DoneA("del_group", c, d, "ok", GroupsText(left), <<>>, "none")
    /\ UNCHANGED <<polls, nextId, entered, overwrote, pend, AdminVars>>

(***************************************************************************)
(* handlers/admin.py: courses.  The grading server holds srvCourses; it    *)
(* may refuse any request, whatever the token.                             *)
(***************************************************************************)
CourseIds == {<<"1">>, <<"2">>}

CoursesText(srv) == <<"courses", sorted_set(srv)>>

\* set_state(COURSES), _send of the list AdminAPI.list_courses returned
show_courses(c, srv) ==
    Render(c, AdminMenu.COURSES, data[c], CoursesText(srv), courses_kb(sorted_set(srv)))

\* admin_courses and back_courses: guard, get_cookie, list_courses, the list.
\* up: the grading server answers.  AdminAPI.list_courses catches nothing:
\* when the request fails, its exception ends the handler.
list_view(op, c, up) ==
    Guarded(op, c, <<>>,
        IF up
        THEN /\ show_courses(c, srvCourses)
             /\ DoneA(op, c, <<>>, "ok", CoursesText(srvCourses),
                      <<Call("list_courses", get_cookie(admin_sessions)[1], now)>>,
                      "passed")
        ELSE /\ UNCHANGED <<state, data, chat>>
             /\ DoneA(op, c, <<>>, "ClientError", <<>>,
                      <<Call("list_courses", get_cookie(admin_sessions)[1], now)>>,
                      "passed"))

admin_courses(c, mid, up) ==
    /\ Pressed(c, mid, cb_admin_courses, "admin_courses")
    /\ list_view("admin_courses", c, up)
    /\ UNCHANGED <<polls, NotReg, pend, now, ticks, nextCookie, srvCourses>>

back_courses(c, mid, up) ==
    /\ Pressed(c, mid, cb_admin_back_courses, "back_courses")
    /\ list_view("back_courses", c, up)
    /\ UNCHANGED <<polls, NotReg, pend, now, ticks, nextCookie, srvCourses>>

confirm_course_del(c, mid, d) ==
    /\ Pressed(c, mid, d, "confirm_course_del")
    /\ LET course_id == replace(d, cb_adm_course_del_)
           text == <<"confirm_course_del", course_id>>
       IN  /\ Render(c, AdminMenu.CONFIRM,
                     update_data(data[c], ("del_course_id" :> course_id)),
                     text, confirm_kb(cb_adm_course_del_yes_ \o course_id))
           /\ Done("confirm_course_del", c, d, "ok", text)
    /\ UNCHANGED <<polls, NotReg, pend, AdminVars>>

\* success: what DELETE /courses/{id} answers
do_course_del(c, mid, d, success) ==
    /\ Pressed(c, mid, d, "do_course_del")
    /\ LET course_id == replace(d, cb_adm_course_del_yes_)
           tok == get_cookie(admin_sessions)
       IN  IF ~admin_sessions.exists
           THEN /\ ~success
                /\ srvCourses' = srvCourses
                /\ DoneA("do_course_del", c, d, "raised", <<>>, <<>>, "none")
           ELSE IF tok = <<>>
           THEN /\ ~success
                /\ srvCourses' = srvCourses
                /\ DoneA("do_course_del", c, d, "relogin", <<>>, <<>>, "none")
           ELSE IF success
           THEN \* api.list_courses is awaited on the closed session: RuntimeError
                /\ course_id \in srvCourses
                /\ srvCourses' = srvCourses \ {course_id}
                /\ DoneA("do_course_del", c, d, "RuntimeError", <<>>,
                         <<Call("delete_course", tok[1], now)>>, "none")
           ELSE /\ srvCourses' = srvCourses
                /\ DoneA("do_course_del", c, d, "delete_failed", <<>>,
                         <<Call("delete_course", tok[1], now)>>, "none")
    /\ UNCHANGED <<polls, state, data, chat, NotReg, pend, admin_sessions, now, ticks,
                   nextCookie>>

add_course_start(c, mid) ==
    /\ Pressed(c, mid, cb_adm_course_add, "add_course_start")
    /\ Guarded("add_course_start", c, <<>>,
           /\ Render(c, AdminMenu.EDIT, data[c], <<"upload_prompt">>, upload_kb)
           /\ DoneA("add_course_start", c, <<>>, "ok", <<"upload_prompt">>, <<>>,
                    "passed"))
    /\ UNCHANGED <<polls, NotReg, pend, now, ticks, nextCookie, srvCourses>>

course_info(c, mid, d) ==
    /\ Pressed(c, mid, d, "course_info")
    /\ LET parts == split(d)
           course_id == parts[Len(parts)]
           tok == get_cookie(admin_sessions)
           text == <<"course", course_id, course_id \in srvCourses>>
       IN  IF ~admin_sessions.exists
           THEN /\ UNCHANGED <<state, data, chat>>
                /\ DoneA("course_info", c, d, "raised", <<>>, <<>>, "none")
           ELSE IF tok = <<>>
           THEN /\ UNCHANGED <<state, data, chat>>
                /\ DoneA("course_info", c, d, "relogin", <<>>, <<>>, "none")
           ELSE /\ Render(c, AdminMenu.COURSE_INFO,
                          update_data(data[c], ("cur_course_id" :> course_id)),
                          text, course_actions_kb(course_id))
                /\ DoneA("course_info", c, d, "ok", text,
                         <<Call("get_course_info", tok[1], now)>>, "none")
    /\ UNCHANGED <<polls, NotReg, pend, AdminVars>>

\* A document arrives in state EDIT.  success: what POST /courses/upload
\* answers; new_id: the id the server gives the course.
upload_new_course(c, success, new_id) ==
    /\ Sendable(c)
    /\ state[c] = AdminMenu.EDIT
    /\ LET g == _ensure_admin(admin_sessions, now)
           tok == get_cookie(admin_sessions)
       IN  IF g.res # "passed"
           THEN \* raised by get_cookie, or AttributeError: a Message has no
                \* .message for _ensure_admin to log; nothing is purged
                /\ ~success
                /\ UNCHANGED <<chat, srvCourses>>
                /\ DoneA("upload_new_course", c, <<>>, "raised", <<>>, <<>>, g.res)
           ELSE IF success
           THEN \* api.list_courses is awaited on the closed session: RuntimeError
                /\ new_id \notin srvCourses
                /\ srvCourses' = srvCourses \cup {new_id}
                /\ chat' = chat
                /\ DoneA("upload_new_course", c, <<>>, "RuntimeError", <<>>,
                         <<Call("upload_course", tok[1], now)>>, "passed")
           ELSE /\ Cardinality(chat[c]) <= MaxLive
                /\ srvCourses' = srvCourses
                /\ chat' = [chat EXCEPT ![c] =
                       send_message(@, FreshId(@, Refs(data[c], pend[c])),
                                    <<"upload_failed">>, {})]
                /\ DoneA("upload_new_course", c, <<>>, "upload_failed",
                         <<"upload_failed">>,
                         <<Call("upload_course", tok[1], now)>>, "passed")
    /\ UNCHANGED <<polls, state, data, NotReg, pend, admin_sessions, now, ticks, nextCookie>>

\* A message that is not a document arrives in state EDIT.
cancel_course_upload(c) ==
    /\ Sendable(c)
    /\ state[c] = AdminMenu.EDIT
    /\ LET tok == get_cookie(admin_sessions)
       IN  IF ~admin_sessions.exists
           THEN /\ state' = [state EXCEPT ![c] = AdminMenu.COURSES]
                /\ UNCHANGED <<data, chat>>
                /\ DoneA("cancel_course_upload", c, <<>>, "raised", <<>>, <<>>, "none")
           ELSE IF tok # <<>>
           THEN /\ show_courses(c, srvCourses)
                /\ DoneA("cancel_course_upload", c, <<>>, "ok", CoursesText(srvCourses),
                         <<Call("list_courses", tok[1], now)>>, "none")
           ELSE /\ Render(c, AdminMenu.COURSES, data[c], <<"panel">>, admin_main_kb)
                /\ DoneA("cancel_course_upload", c, <<>>, "ok", <<"panel">>, <<>>, "none")
    /\ UNCHANGED <<polls, NotReg, pend, AdminVars>>

admin_cancel_main(c, mid) ==
    /\ Pressed(c, mid, cb_admin_cancel, "admin_cancel")
    /\ show_main(c)
    /\ Done("admin_cancel", c, <<>>, "main", <<"panel">>)
    /\ UNCHANGED <<polls, admin_sessions, NotReg, pend, now, ticks, nextCookie,
                   srvCourses>>

admin_cancel_clear(c, mid) ==
    /\ Pressed(c, mid, cb_admin_cancel, "admin_cancel")
    /\ state' = [state EXCEPT ![c] = NoState]
    /\ data' = [data EXCEPT ![c] = clear(@)]
    /\ chat' = [chat EXCEPT ![c] = delete_message(@, mid)]
    /\ entered' = [entered EXCEPT ![c] = EmptyBag]
    /\ overwrote' = [overwrote EXCEPT ![c] = FALSE]
    /\ Done("admin_cancel", c, <<>>, "closed", <<>>)
    /\ UNCHANGED <<polls, admin_sessions, students, nextId, pend, now, ticks,
                   nextCookie, srvCourses>>

admin_cancel(c, mid) ==
    /\ Pressed(c, mid, cb_admin_cancel, "admin_cancel")
    /\ IF state[c] # AdminMenu.CONFIRM
       THEN /\ state' = [state EXCEPT ![c] = NoState]
            /\ data' = [data EXCEPT ![c] = clear(@)]
            /\ chat' = [chat EXCEPT ![c] = delete_message(@, mid)]
            /\ entered' = [entered EXCEPT ![c] = EmptyBag]
            /\ overwrote' = [overwrote EXCEPT ![c] = FALSE]
            /\ admin_sessions' = admin_sessions
            /\ Done("admin_cancel", c, <<>>, "closed", <<>>)
       ELSE /\ UNCHANGED <<entered, overwrote>>
            /\ IF Has(data[c], "cur_group")
               THEN /\ show_students(c, students, data[c]["cur_group"])
                    /\ admin_sessions' = admin_sessions
                    /\ DoneA("admin_cancel", c, <<>>, "students",
                             StudentsText(students, data[c]["cur_group"]), <<>>, "none")
               ELSE IF Has(data[c], "cur_course_id")
               THEN LET g == _ensure_admin(admin_sessions, now)
                    IN  /\ admin_sessions' = [admin_sessions EXCEPT !.rows = g.rows]
                        /\ IF g.res = "raised"
                           THEN /\ UNCHANGED <<state, data, chat>>
                                /\ DoneA("admin_cancel", c, <<>>, "raised", <<>>, <<>>,
                                         "raised")
                           ELSE IF g.res = "passed"
                           THEN /\ show_courses(c, srvCourses)
                                /\ DoneA("admin_cancel", c, <<>>, "courses",
                                         CoursesText(srvCourses),
                                         <<Call("list_courses",
                                                get_cookie(admin_sessions)[1], now)>>,
                                         "passed")
                           ELSE /\ show_main(c)
                                /\ DoneA("admin_cancel", c, <<>>, "main", <<"panel">>,
                                         <<>>, g.res)
               ELSE /\ show_main(c)
                    /\ admin_sessions' = admin_sessions
                    /\ Done("admin_cancel", c, <<>>, "main", <<"panel">>)
    /\ UNCHANGED <<polls, students, nextId, pend, now, ticks, nextCookie, srvCourses>>

(***************************************************************************)
(* handlers/common.py: the student menu.  The grading server serves one    *)
(* group and one lab for every course it holds.                            *)
(***************************************************************************)
MaxPolls == 4       \* requests and waits counted per poll task
MaxTasks == 2       \* poll tasks created

cb_back_menu == <<"back", "_", "menu">>
cb_courses_back == <<"courses", "_", "back">>
cb_course_ == <<"course", "_">>
cb_lab_ == <<"lab", "_">>

menu_courses_kb(courses, add_other) ==
    {cb_course_ \o co.id : co \in courses}
        \cup (IF add_other THEN {<<"courses", "_", "other">>} ELSE {})
        \cup {cb_back_menu}

labs_kb(labs, course_id) ==
    {cb_lab_ \o course_id \o <<"_">> \o labs[i] : i \in 1..Len(labs)}
        \cup {cb_courses_back}

home_kb == {cb_back_menu}

current_semester == <<"Fall">>

\* GET /courses: course 1 runs in the current semester, the others do not;
\* [] when the request fails (up = FALSE)
get_courses(srv, up) ==
    IF up
    THEN {[id |-> id, name |-> <<"c">> \o id,
           semester |-> IF id = <<"1">> THEN current_semester ELSE <<"Spring">>]
          : id \in srv}
    ELSE {}

\* GET /courses/{id}/groups
get_groups(srv, course_id, up) ==
    IF up /\ course_id \in srv THEN {<<"a", "B">>} ELSE {}

\* GET /courses/{id}/groups/{group}/labs
get_labs(srv, course_id, group, up) ==
    IF up /\ group \in get_groups(srv, course_id, up) THEN << <<"L">> >> ELSE <<>>

back_to_menu(c, mid) ==
    /\ Pressable(c, mid, cb_back_menu)
    /\ chat' = [chat EXCEPT ![c] =
                    Answer(@, data[c], mid, <<"main_menu">>, main_menu_kb)]
    /\ Done("back_to_menu", c, <<>>, "ok", <<"main_menu">>)
    /\ UNCHANGED <<polls, state, data, NotReg, pend, AdminVars>>

\* choose_course / courses_back body
_show_active_courses(c, mid, up, op) ==
    LET courses == get_courses(srvCourses, up)
        active == {co \in courses : co.semester = current_semester}
        other == {co \in courses : co.semester # current_semester}
    IN  /\ chat' = [chat EXCEPT ![c] =
                Answer(@, data[c], mid, <<"courses">>,
                       menu_courses_kb(active, other # {}))]
        /\ Done(op, c, <<>>, "ok", <<"courses">>)

choose_course(c, mid, up) ==
    /\ Pressable(c, mid, cb_menu_choose_course)
    /\ _show_active_courses(c, mid, up, "choose_course")
    /\ UNCHANGED <<polls, state, data, NotReg, pend, AdminVars>>

courses_back(c, mid, up) ==
    /\ Pressable(c, mid, cb_courses_back)
    /\ _show_active_courses(c, mid, up, "courses_back")
    /\ UNCHANGED <<polls, state, data, NotReg, pend, AdminVars>>

courses_other(c, mid, up) ==
    /\ Pressable(c, mid, <<"courses", "_", "other">>)
    /\ LET other == {co \in get_courses(srvCourses, up) :
                         co.semester # current_semester}
       IN  /\ chat' = [chat EXCEPT ![c] =
                   Answer(@, data[c], mid, <<"other_courses">>,
                          menu_courses_kb(other, FALSE))]
           /\ Done("courses_other", c, <<>>, "ok", <<"other_courses">>)
    /\ UNCHANGED <<polls, state, data, NotReg, pend, AdminVars>>

has_course_never(courses, ref) == FALSE

\* any(cr.name == course.name and cr.semester == course.semester
\*     for cr in student.courses)
has_course(courses, ref) ==
    \E i \in 1..Len(courses) :
        courses[i].name = ref.name /\ courses[i].semester = ref.semester

\* the request of APIClient.register_student for a course and a group
RegisterCall(course_id, group) ==
    [call |-> "register_student", course |-> course_id, group |-> group, at |-> now]

\* reg: what POST .../register answers: "registered", "already_registered",
\* "error" (any other status) or "None" (the request failed)
course_selected(c, mid, d, up, reg) ==
    /\ Pressable(c, mid, d)
    /\ startswith(d, cb_course_)
    /\ LET course_id == SubSeq(d, Len(cb_course_) + 1, Len(d))
           found == {co \in get_courses(srvCourses, up) : co.id = course_id}
           mine == get_by_chat(students, c)
       IN  IF found = {}
           THEN /\ UNCHANGED <<chat, students>>
                /\ Done("course_selected", c, d, "no_course", <<>>)
           ELSE IF mine = {}
           THEN /\ UNCHANGED <<chat, students>>
                /\ Done("course_selected", c, d, "unregistered", <<>>)
           ELSE LET course == CHOOSE co \in found : TRUE
                    student == CHOOSE r \in mine : TRUE
                    ref == [name |-> course.name, semester |-> course.semester]
                    has == has_course(student.courses, ref)
                    gw == IF has THEN <<>>
                          ELSE <<RegisterCall(course_id, student.group_code)>>
                    saved == [student EXCEPT !.courses = Append(@, ref)]
                    rows == IF has THEN students
                            ELSE {IF r.id = saved.id THEN saved ELSE r :
                                  r \in students}
                    labs == get_labs(srvCourses, course_id, student.group_code, up)
                    End(res, text) ==
                        DoneA("course_selected", c, d, res, text, gw, "none")
                IN  IF ~has /\ reg = "None"
                    THEN /\ UNCHANGED <<chat, students>>
                         /\ End("server_error", <<>>)
                    ELSE IF ~has /\ reg \notin {"registered", "already_registered"}
                    THEN /\ UNCHANGED <<chat, students>>
                         /\ End("not_bound", <<>>)
                    ELSE /\ students' = rows
                         /\ IF student.group_code
                                   \notin get_groups(srvCourses, course_id, up)
                            THEN /\ chat' = chat
                                 /\ End("not_for_group", <<>>)
                            ELSE IF labs = <<>>
                            THEN /\ chat' = chat
                                 /\ End("no_labs", <<>>)
                            ELSE /\ chat' = [chat EXCEPT ![c] =
                                        Answer(@, data[c], mid, <<"labs">>,
                                               labs_kb(labs, course_id))]
                                 /\ End("ok", <<"labs">>)
    /\ UNCHANGED <<polls, state, data, nextId, entered, overwrote, pend, AdminVars>>

MaxSelecting == 2    \* course_selected handlers of one chat under way at once

\* course_selected up to the await of api.register_student, for a course
\* that is not in the list of the student read.  The dispatcher runs the
\* handler of every update as a task of its own: a second press in the
\* same chat is handled while this one waits.  pend[c].payload holds, for
\* every handler under way, the Student object it has read.
course_selected_begin(c, mid, d) ==
    /\ \E m \in chat[c] : m.id = mid /\ d \in m.kb
    /\ startswith(d, cb_course_)
    /\ pend[c].kind \in {"idle", "select"}
    /\ Len(pend[c].payload) < MaxSelecting
    /\ LET course_id == SubSeq(d, Len(cb_course_) + 1, Len(d))
           found == {co \in get_courses(srvCourses, TRUE) : co.id = course_id}
           mine == get_by_chat(students, c)
           course == CHOOSE co \in found : TRUE
           student == CHOOSE r \in mine : TRUE
           ref == [name |-> course.name, semester |-> course.semester]
       IN  /\ found # {}
           /\ mine # {}
           /\ ~has_course(student.courses, ref)
           /\ pend' = [pend EXCEPT ![c] =
                  [kind |-> "select", msg |-> mid,
                   payload |-> Append(pend[c].payload,
                                  [student |-> student, ref |-> ref,
                                   course |-> course_id, msg |-> mid])]]
           /\ DoneA("course_selected_begin", c, d, "registering", <<>>,
                    <<RegisterCall(course_id, student.group_code)>>, "none")
    /\ UNCHANGED <<polls, state, data, chat, NotReg, AdminVars>>

\* course_selected from the answer reg of api.register_student, for the
\* i-th handler under way: append to the Student object read earlier,
\* save it (UPDATE ... WHERE id), delete the pressed message, show the labs.
course_selected_end(c, i, reg) ==
    /\ pend[c].kind = "select"
    /\ i \in 1..Len(pend[c].payload)
    /\ LET h == pend[c].payload[i]
           saved == [h.student EXCEPT !.courses = Append(@, h.ref)]
           labs == get_labs(srvCourses, h.course, h.student.group_code, TRUE)
           rest == SubSeq(pend[c].payload, 1, i - 1)
                       \o SubSeq(pend[c].payload, i + 1, Len(pend[c].payload))
           End(res, text) ==
               DoneA("course_selected_end", c, cb_course_ \o h.course, res, text,
                     <<>>, "none")
       IN  /\ pend' = [pend EXCEPT ![c] =
                  IF rest = <<>> THEN Idle ELSE [@ EXCEPT !.payload = rest]]
           /\ IF reg \notin {"registered", "already_registered"}
              THEN /\ UNCHANGED <<students, chat>>
                   /\ End(IF reg = "None" THEN "server_error" ELSE "not_bound", <<>>)
              ELSE /\ students' = {IF r.id = saved.id THEN saved ELSE r : r \in students}
                   /\ IF labs = <<>>
                      THEN /\ chat' = chat
                           /\ End("no_labs", <<>>)
                      ELSE IF ~\E m \in chat[c] : m.id = h.msg
                      THEN \* cb.message.delete() raises TelegramBadRequest
                           /\ chat' = chat
                           /\ End("raised", <<>>)
                      ELSE /\ chat' = [chat EXCEPT ![c] =
                                  Answer(@, data[c], h.msg, <<"labs">>,
                                         labs_kb(labs, h.course))]
                           /\ End("ok", <<"labs">>)
    /\ UNCHANGED <<polls, state, data, nextId, entered, overwrote, AdminVars>>

(***************************************************************************)
(* handlers/common.py: lab_selected and its poll task.  A task is          *)
(* [c, lab, msg, pc, req, waits, pendings, edits]: the chat and the lab it *)
(* grades, the id of its placeholder, where it is suspended ("request": on *)
(* grade_lab, "sleep": on asyncio.sleep, "done": returned), and how many   *)
(* requests, waits, pending answers and edits it has made so far (counted  *)
(* up to MaxPolls).                                                        *)
(***************************************************************************)
Inc(n) == IF n < MaxPolls THEN n + 1 ELSE n

Active(i) == polls[i].pc # "done"

\* What the gateway can do with one POST .../grade
Outcomes == {"pending", "updated", "rejected", "http_error", "disconnect", "failure"}

grade_lab_raise(o) ==
    CASE o \in {"pending", "updated", "rejected"} -> o
      [] o = "http_error" -> "error"
      [] OTHER -> "None"

grade_lab_retry(o) ==
    IF o = "updated" THEN "updated" ELSE "pending"

\* APIClient.grade_lab: the status of the dict it returns, "None" for None
grade_lab(o) ==
    CASE o \in {"pending", "updated", "rejected"} -> o
      [] o = "http_error" -> "error"
      [] o = "disconnect" -> "pending"
      [] OTHER -> "None"

edit_text_resend(ch, id, text, kb) ==
    send_message(ch, FreshId(ch, {}), text, kb)

\* wait_msg.edit_text(text, reply_markup=kb)
edit_text(ch, id, text, kb) ==
    {IF m.id = id THEN [id |-> id, kind |-> text[1], kb |-> kb] ELSE m : m \in ch}

await_task(mid) == [kind |-> "poll", msg |-> mid, payload |-> <<>>]

\* asyncio.create_task(poll()): the handler goes on without the task
create_task(mid) == Idle

lab_selected(c, mid, d) ==
    /\ Pressable(c, mid, d)
    /\ startswith(d, cb_lab_)
    /\ Len(polls) < MaxTasks
    /\ LET parts == split(d)
           ch == delete_message(chat[c], mid)
           id == FreshId(ch, Refs(data[c], Idle))
       IN  IF Len(parts) < 3
           THEN \* the unpacking of cb.data.split("_", 2) raises ValueError
                /\ UNCHANGED <<chat, polls, pend>>
                /\ Done("lab_selected", c, d, "ValueError", <<>>)
           ELSE IF get_by_chat(students, c) = {}
           THEN /\ UNCHANGED <<chat, polls, pend>>
                /\ Done("lab_selected", c, d, "unregistered", <<>>)
           ELSE /\ chat' = [chat EXCEPT ![c] =
                                send_message(ch, id, <<"checking">>, {})]
                /\ polls' = Append(polls,
                       [c |-> c, course |-> parts[2],
                        lab |-> join(SubSeq(parts, 3, Len(parts))),
                        msg |-> id, pc |-> "request", req |-> 1, waits |-> 0,
                        pendings |-> 0, edits |-> 0])
                /\ pend' = [pend EXCEPT ![c] = create_task(id)]
                /\ Done("lab_selected", c, d, "ok", <<"checking">>)
    /\ UNCHANGED <<state, data, NotReg, AdminVars>>

\* The request of task i ends with outcome o: the loop of poll() from the
\* return of grade_lab to its next suspension or its return.
poll_response(i, o) ==
    /\ i \in 1..Len(polls)
    /\ polls[i].pc = "request"
    /\ LET t == polls[i]
           res == grade_lab(o)
           text == CASE res = "None" -> <<"server_error">>
                     [] res = "updated" -> <<"result">>
                     [] OTHER -> <<"grading_error">>
       IN  IF res = "pending"
           THEN /\ polls' = [polls EXCEPT ![i].pc = "sleep",
                                          ![i].pendings = Inc(@)]
                /\ chat' = chat
                /\ Done("poll_response", t.c, <<o>>, "pending", <<>>)
           ELSE /\ polls' = [polls EXCEPT ![i].pc = "done", ![i].edits = Inc(@)]
                /\ chat' = [chat EXCEPT ![t.c] = edit_text(@, t.msg, text, home_kb)]
                /\ Done("poll_response", t.c, <<o>>, "done", text)
    /\ UNCHANGED <<state, data, NotReg, pend, AdminVars>>

poll_wake_capped(i) ==
    /\ i \in 1..Len(polls)
    /\ polls[i].pc = "sleep"
    /\ polls[i].req < MaxPolls - 1
    /\ polls' = [polls EXCEPT ![i].pc = "request", ![i].req = Inc(@),
                              ![i].waits = Inc(@)]
    /\ Done("poll_wake", polls[i].c, <<>>, "ok", <<>>)
    /\ UNCHANGED <<state, data, chat, NotReg, pend, AdminVars>>

\* asyncio.sleep(15) of task i is over: the loop issues its next request.
poll_wake(i) ==
    /\ i \in 1..Len(polls)
    /\ polls[i].pc = "sleep"
    /\ polls' = [polls EXCEPT ![i].pc = "request", ![i].req = Inc(@),
                              ![i].waits = Inc(@)]
    /\ Done("poll_wake", polls[i].c, <<>>, "ok", <<>>)
    /\ UNCHANGED <<state, data, chat, NotReg, pend, AdminVars>>

(***************************************************************************)
(* The admin panel of one chat over a registry the wizard has filled.      *)
(***************************************************************************)
\* the row the wizard stores for chat_id after "-" as patronymic and
\* " aB" as name, group and GitHub handle
RegistryRow(id, chat_id, surname) ==
    [Student(chat_id, (Reg.SURNAME :> surname) @@ (Reg.NAME :> <<"A", "b">>)
                        @@ (Reg.PATRONYMIC :> <<"-">>) @@ (Reg.GROUP :> <<"a", "B">>)
                        @@ (Reg.GITHUB :> <<"a", "B">>))
        EXCEPT !.id = id]

Registries ==
    { {RegistryRow(1, 1, <<"B">>)},
      {RegistryRow(1, 1, <<"B">>), RegistryRow(2, 2, <<"A", "b">>)} }

\* the state after start-up over one of the registries regs, the grading
\* server holding the courses srv
InitOver(regs, srv) ==
    /\ state = [c \in Chats |-> NoState]
    /\ data = [c \in Chats |-> EmptyBag]
    /\ chat = [c \in Chats |-> {}]
    /\ students \in regs
    /\ nextId = Cardinality(students) + 1
    /\ admin_sessions = [exists |-> FALSE, rows |-> <<>>]
    /\ now = 0
    /\ ticks = 0
    /\ nextCookie = 1
    /\ srvCourses = srv
    /\ pend = [c \in Chats |-> Idle]
    /\ entered = [c \in Chats |-> EmptyBag]
    /\ overwrote = [c \in Chats |-> FALSE]
    /\ polls = <<>>
    /\ last = [op |-> "init", c |-> 0, from |-> NoState, arg |-> <<>>, res |-> "",
               text |-> <<>>, gw |-> <<>>, guard |-> "none"]

InitAdmin == InitOver(Registries, {<<"1">>})

\* Registries of two groups.  The group code is free text: the second
\* registry holds a group whose code starts with "yes_".
GroupRegistries ==
    { {RegistryRow(1, 1, <<"B">>),
       [RegistryRow(2, 2, <<"A", "b">>) EXCEPT !.group_code = <<"C">>]},
      {[RegistryRow(1, 1, <<"B">>) EXCEPT !.group_code = <<"C">>],
       [RegistryRow(2, 2, <<"A", "b">>) EXCEPT !.group_code = <<"yes", "_", "C">>]} }

InitGroups == InitOver(GroupRegistries, {<<"1">>})

AdminLoginTexts == {<<"r", " ">>}
AdminPasswordTexts == {<<" ", "p">>, <<"x">>}

TickSteps == {1, ttl_sec}

Buttons(c) ==
    {b \in UNION {{<<m.id, d>> : d \in m.kb} : m \in chat[c]} : TRUE}

\* /admin into an empty chat, the login dialogue, logout, and the clock
NextLogin(c) ==
    \/ chat[c] = {} /\ admin_entry(c)
    \/ \E t \in AdminLoginTexts : admin_login_step(c, t)
    \/ \E t \in AdminPasswordTexts : admin_password_step(c, t)
    \/ admin_password_save(c)
    \/ admin_password_done(c)
    \/ \E b \in Buttons(c) : admin_cancel(c, b[1])
    \/ \E b \in Buttons(c) : admin_logout(c, b[1])
    \/ \E o \in LogoutOutcomes : admin_logout_clear(c, o)
    \/ \E d \in TickSteps : Tick(d)

\* the buttons every list of the panel carries
NextList(c) ==
    \/ \E b \in Buttons(c) : back_to_main(c, b[1])
    \/ \E b \in Buttons(c) : empty_list_callback(c, b[1])

\* The administrator logs in and works on groups and students.
NextAdmin ==
    \/ NextLogin(UserChat)
    \/ NextList(UserChat)
    \/ \E b \in Buttons(UserChat) : admin_groups(UserChat, b[1])
    \/ \E b \in Buttons(UserChat) : admin_group_open(UserChat, b[1], b[2])
    \/ \E b \in Buttons(UserChat) : back_groups(UserChat, b[1])
    \/ \E b \in Buttons(UserChat) : back_students(UserChat, b[1], b[2])
    \/ \E b \in Buttons(UserChat) : admin_student(UserChat, b[1], b[2])
    \/ \E b \in Buttons(UserChat) : del_student(UserChat, b[1])
    \/ \E b \in Buttons(UserChat) : confirm_del_student(UserChat, b[1], b[2])
    \/ \E b \in Buttons(UserChat) : confirm_del_group(UserChat, b[1], b[2])
    \/ \E b \in Buttons(UserChat) : del_group(UserChat, b[1], b[2])

SpecAdmin == InitAdmin /\ [][NextAdmin]_vars

\* The same work over a registry of two groups.
SpecGroups == InitGroups /\ [][NextAdmin]_vars

\* The administrator logs in, works on courses and opens the group list.
NextCourses ==
    \/ NextLogin(UserChat)
    \/ NextList(UserChat)
    \/ \E b \in Buttons(UserChat) : admin_groups(UserChat, b[1])
    \/ \E b \in Buttons(UserChat), up \in BOOLEAN : admin_courses(UserChat, b[1], up)
    \/ \E b \in Buttons(UserChat), up \in BOOLEAN : back_courses(UserChat, b[1], up)
    \/ \E b \in Buttons(UserChat) : confirm_course_del(UserChat, b[1], b[2])
    \/ \E b \in Buttons(UserChat), ok \in BOOLEAN :
            do_course_del(UserChat, b[1], b[2], ok)
    \/ \E b \in Buttons(UserChat) : add_course_start(UserChat, b[1])
    \/ \E b \in Buttons(UserChat) : course_info(UserChat, b[1], b[2])
    \/ \E ok \in BOOLEAN, id \in CourseIds : upload_new_course(UserChat, ok, id)
    \/ cancel_course_upload(UserChat)

SpecCourses == InitAdmin /\ [][NextCourses]_vars

\* The administrator opens confirmations from the students view and from
\* the course view, and cancels them.
NextCancel ==
    \/ NextLogin(UserChat)
    \/ \E b \in Buttons(UserChat) : back_to_main(UserChat, b[1])
    \/ \E b \in Buttons(UserChat) : admin_groups(UserChat, b[1])
    \/ \E b \in Buttons(UserChat) : admin_group_open(UserChat, b[1], b[2])
    \/ \E b \in Buttons(UserChat) : back_groups(UserChat, b[1])
    \/ \E b \in Buttons(UserChat) : confirm_del_group(UserChat, b[1], b[2])
    \/ \E b \in Buttons(UserChat), up \in BOOLEAN : admin_courses(UserChat, b[1], up)
    \/ \E b \in Buttons(UserChat) : course_info(UserChat, b[1], b[2])
    \/ \E b \in Buttons(UserChat) : confirm_course_del(UserChat, b[1], b[2])

SpecCancel == InitAdmin /\ [][NextCancel]_vars

\* _send is applied in one chat, again and again, under every combination
\* of failures; the user may delete a message of the bot.
MaxRendered == 3    \* live messages of the chat a render starts from

Rendering(c, f) ==
    /\ Sendable(c)
    /\ Cardinality(chat[c]) < MaxRendered
    /\ LET r == _send_failing(data[c], chat[c], pend[c], <<"prompt">>, {}, f)
       IN  /\ data' = [data EXCEPT ![c] = r.data]
           /\ chat' = [chat EXCEPT ![c] = r.chat]
           /\ Done("_send", c, f, r.res, <<"prompt">>)
    /\ UNCHANGED <<polls, state, NotReg, pend, AdminVars>>

UserDeletes(c, mid) ==
    /\ \E m \in chat[c] : m.id = mid
    /\ chat' = [chat EXCEPT ![c] = delete_message(@, mid)]
    /\ Done("UserDeletes", c, <<>>, "ok", <<>>)
    /\ UNCHANGED <<polls, state, data, NotReg, pend, AdminVars>>

NextRender ==
    \/ \E f \in Failures : Rendering(UserChat, f)
    \/ \E m \in chat[UserChat] : UserDeletes(UserChat, m.id)

SpecRender == Init /\ [][NextRender]_vars

\* Two administrators log in and delete students of the one registry.
NextTwoAdmins ==
    \E c \in Chats :
        \/ chat[c] = {} /\ admin_entry(c)
        \/ \E t \in AdminLoginTexts : admin_login_step(c, t)
        \/ admin_password_step(c, <<" ", "p">>)
        \/ admin_password_save(c)
        \/ admin_password_done(c)
        \/ \E b \in Buttons(c) : admin_groups(c, b[1])
        \/ \E b \in Buttons(c) : admin_group_open(c, b[1], b[2])
        \/ \E b \in Buttons(c) : admin_student(c, b[1], b[2])
        \/ \E b \in Buttons(c) : confirm_del_student(c, b[1], b[2])
        \/ \E b \in Buttons(c) : del_student(c, b[1])

SpecTwoAdmins == InitAdmin /\ [][NextTwoAdmins]_vars

\* Two conversations: each may ask for the panel, log in with good or bad
\* credentials, send /start, and press whatever the bot has rendered to it.
NextPrivileged ==
    \E c \in Chats :
        \/ chat[c] = {} /\ admin_entry(c)
        \/ chat[c] = {} /\ cmd_start(c)
        \/ \E t \in AdminLoginTexts : admin_login_step(c, t)
        \/ \E t \in AdminPasswordTexts : admin_password_step(c, t)
        \/ admin_password_save(c)
        \/ admin_password_done(c)
        \/ \E b \in Buttons(c) : admin_cancel(c, b[1])
        \/ \E b \in Buttons(c) : admin_groups(c, b[1])
        \/ \E b \in Buttons(c) : admin_group_open(c, b[1], b[2])
        \/ \E b \in Buttons(c) : admin_student(c, b[1], b[2])
        \/ \E b \in Buttons(c) : confirm_del_student(c, b[1], b[2])
        \/ \E b \in Buttons(c) : del_student(c, b[1])
        \/ \E b \in Buttons(c) : confirm_del_group(c, b[1], b[2])
        \/ \E b \in Buttons(c) : del_group(c, b[1], b[2])
        \/ \E b \in Buttons(c) : admin_courses(c, b[1], TRUE)
        \/ \E b \in Buttons(c) : course_info(c, b[1], b[2])
        \/ \E b \in Buttons(c) : confirm_course_del(c, b[1], b[2])
        \/ \E b \in Buttons(c) : do_course_del(c, b[1], b[2], TRUE)
        \/ \E b \in Buttons(c) : add_course_start(c, b[1])
        \/ upload_new_course(c, TRUE, <<"2">>)

SpecPrivileged == InitAdmin /\ [][NextPrivileged]_vars

\* A registered student opens course lists from two menus and selects
\* courses; the handlers of one chat run as concurrent tasks.
InitSelect == InitOver({{RegistryRow(1, 1, <<"B">>)}}, {<<"1">>, <<"2">>})

NextSelect ==
    \/ cmd_start(UserChat)
    \/ \E b \in Buttons(UserChat) : choose_course(UserChat, b[1], TRUE)
    \/ \E b \in Buttons(UserChat) : courses_other(UserChat, b[1], TRUE)
    \/ \E b \in Buttons(UserChat) : course_selected_begin(UserChat, b[1], b[2])
    \/ \E i \in 1..MaxSelecting, reg \in {"registered", "None"} :
            course_selected_end(UserChat, i, reg)

SpecSelect == InitSelect /\ [][NextSelect]_vars

\* Two administrators log in and out of the one admin_sessions table.
NextSession ==
    \E c \in Chats :
        \/ NextLogin(c)
        \/ \E b \in Buttons(c) : admin_groups(c, b[1])

SpecSession == Init /\ [][NextSession]_vars

\* Registered students use the menu and have labs graded; the user of the
\* other chat sends /start.
NextPoll ==
    \/ cmd_start(UserChat)
    \/ \E c \in Chats \ {UserChat} : chat[c] = {} /\ cmd_start(c)
    \/ \E b \in Buttons(UserChat) : back_to_menu(UserChat, b[1])
    \/ \E b \in Buttons(UserChat), up \in BOOLEAN : choose_course(UserChat, b[1], up)
    \/ \E b \in Buttons(UserChat), up \in BOOLEAN : courses_back(UserChat, b[1], up)
    \/ \E b \in Buttons(UserChat), reg \in {"registered", "None"} :
            course_selected(UserChat, b[1], b[2], TRUE, reg)
    \/ \E b \in Buttons(UserChat) : lab_selected(UserChat, b[1], b[2])
    \/ \E i \in 1..Len(polls), o \in Outcomes : poll_response(i, o)
    \/ \E i \in 1..Len(polls) : poll_wake(i)

SpecPoll == InitAdmin /\ [][NextPoll]_vars

\* The event loop resumes every task whose request or sleep is over: a
\* request ends within its timeout and a sleep after its 15 seconds.
SpecPollLive ==
    /\ SpecPoll
    /\ \A i \in 1..MaxTasks :
           /\ WF_vars(\E o \in Outcomes : poll_response(i, o))
           /\ WF_vars(poll_wake(i))

(***************************************************************************)
(* Properties of the admin session and of the guarded admin actions.       *)
(***************************************************************************)
Privileged == {"list_courses", "get_course_info", "delete_course", "upload_course"}

\* no token is stored, or the stored one has expired
NoValidToken ==
    \/ ~admin_sessions.exists
    \/ admin_sessions.rows = <<>>
    \/ admin_sessions.rows[1].expires <= now

\* C1: no privileged gateway call (course list, detail, delete, upload)
\* carries a stored token whose expiry is at or before the time of the call.
C1_NoCallWithExpiredToken ==
    \A i \in 1..Len(last.gw) :
        last.gw[i].call \in Privileged => last.gw[i].expires > last.gw[i].at

\* C2: an admin action on the students table (open a group, show a student,
\* delete a student, delete a group) taken while no valid token is stored
\* deletes no row and renders nothing.
C2_RegistryActionsGuarded ==
    [][(/\ last'.op \in {"admin_group_open", "admin_student", "del_student", "del_group"}
        /\ NoValidToken)
       => students' = students /\ last'.text = <<>>]_vars

\* C3: when the server rejects the credentials typed in PASSWORD, the state
\* tag becomes LOGIN and nothing is written to admin_sessions.
C3_RejectionReturnsToLogin ==
    [][(last'.op = "admin_password_step" /\ last'.res = "rejected")
       => /\ state'[last'.c] = AdminLogin.LOGIN
          /\ admin_sessions' = admin_sessions]_vars

\* C4: admin_sessions never holds more than one token, and the save of a
\* login leaves exactly the token that login was issued, expiring ttl_sec
\* later, whatever other logins, logouts and expiry purges are under way.
C4_SingleToken ==
    /\ [](Len(admin_sessions.rows) <= 1)
    /\ [][last'.op = "admin_password_save"
          => /\ pend[last'.c].kind = "login"
             /\ admin_sessions'.rows =
                    <<[cookie |-> pend[last'.c].payload, expires |-> now + ttl_sec]>>]_vars

\* The second login saved its token while another chat's logout, which read
\* the first token, is still under way.
C4_Witness ==
    /\ last.op = "admin_password_save"
    /\ admin_sessions.rows = <<[cookie |-> 2, expires |-> now + ttl_sec]>>
    /\ \E c \in Chats \ {last.c} :
          /\ pend[c].kind = "logout"
          /\ pend[c].payload # <<>>
          /\ pend[c].payload[1].cookie = 1

(***************************************************************************)
(* Properties of the registration wizard and of the students table.        *)
(***************************************************************************)
RegKeys == {Reg.SURNAME, Reg.NAME, Reg.PATRONYMIC, Reg.GROUP, Reg.GITHUB}

Succ(s) ==
    CASE s = Reg.SURNAME -> Reg.NAME
      [] s = Reg.NAME -> Reg.PATRONYMIC
      [] s = Reg.PATRONYMIC -> Reg.GROUP
      [] s = Reg.GROUP -> Reg.GITHUB
      [] s = Reg.GITHUB -> Reg.CONFIRM

Pred(s) ==
    CASE s = Reg.NAME -> Reg.SURNAME
      [] s = Reg.PATRONYMIC -> Reg.NAME
      [] s = Reg.GROUP -> Reg.PATRONYMIC
      [] s = Reg.GITHUB -> Reg.GROUP

SameField(d, e, k) == Has(d, k) = Has(e, k) /\ (Has(d, k) => d[k] = e[k])

TupleOf(r) == <<r.surname, r.name, r.group_code, r.github>>

SummaryTuple(e) == <<e[Reg.SURNAME], e[Reg.NAME], e[Reg.GROUP], e[Reg.GITHUB]>>

SummaryOf(e) ==
    <<"summary", e[Reg.SURNAME], e[Reg.NAME], e[Reg.PATRONYMIC], e[Reg.GROUP], e[Reg.GITHUB]>>

\* C5: no two rows of students carry the same (surname, name, group code,
\* GitHub handle) and no two carry the same chat id, whatever the
\* interleaving of the reg_confirm handlers of the chats.
C5_UniqueStudents ==
    \A r1, r2 \in students :
        r1 # r2 => TupleOf(r1) # TupleOf(r2) /\ r1.chat_id # r2.chat_id

\* Two chats confirmed the same tuple one inside the other; one row was stored.
C5_Witness ==
    /\ last.op = "reg_confirm_insert"
    /\ last.res = "failure"
    /\ \E r \in students : r.chat_id # last.c /\ TupleOf(r) = SummaryTuple(entered[last.c])

\* C6: a reg_confirm whose tuple is already stored for another chat ends with
\* the duplicate-rejection message and stores nothing.
C6_DuplicateRejected ==
    [][\A c \in Chats :
        ( /\ last'.op = "reg_confirm" /\ last'.c = c
          /\ HasAllFields(data[c])
          /\ \E r \in students :
                /\ r.chat_id # c
                /\ TupleOf(r) = <<data[c][Reg.SURNAME], data[c][Reg.NAME],
                                  data[c][Reg.GROUP], data[c][Reg.GITHUB]>> )
        => /\ last'.res = "duplicate"
           /\ last'.text = <<"duplicate">>
           /\ pend'[c].kind = "idle"
           /\ students' = students]_vars

C6_Witness ==
    /\ last.op = "reg_confirm"
    /\ last.res = "duplicate"
    /\ \E r \in students : r.chat_id # last.c
    /\ \E m \in chat[last.c] : m.kind = "duplicate"

\* C7: a text typed in state S of SURNAME..GITHUB is stored normalized under
\* S, the state tag becomes the successor of S (CONFIRM after GITHUB), and no
\* other registration field changes.
C7_ForwardStep ==
    [][\A c \in Chats :
        (last'.op = "reg_steps" /\ last'.c = c)
        => /\ state[c] \in RegKeys
           /\ state'[c] = Succ(state[c])
           /\ Has(data'[c], state[c])
           /\ data'[c][state[c]] = Normalized(state[c], last'.arg)
           /\ \A k \in RegKeys \ {state[c]} : SameField(data[c], data'[c], k)]_vars

C7_Witness ==
    /\ last.op = "reg_steps"
    /\ last.arg = <<" ", "a", "B">>
    /\ last.from = Reg.NAME
    /\ state[last.c] = Reg.PATRONYMIC
    /\ data[last.c][Reg.NAME] = <<"A", "b">>

\* C8: the summary rendered on reaching CONFIRM shows, for each of the five
\* fields, the value typed last for it.
C8_SummaryIsLatest ==
    \A c \in Chats :
        (last.op = "reg_steps" /\ last.c = c /\ state[c] = Reg.CONFIRM)
        => /\ HasAllFields(entered[c])
           /\ last.text = SummaryOf(entered[c])
           /\ \E m \in chat[c] : m.kind = "summary" /\ m.id = data[c][BOT_MSG_KEY]

\* CONFIRM reached after a field was typed a second time with another value.
C8_Witness ==
    /\ last.op = "reg_steps"
    /\ state[last.c] = Reg.CONFIRM
    /\ overwrote[last.c]

\* C9: reg_back in NAME..GITHUB moves to the predecessor state and keeps every
\* registration field; reg_back in SURNAME changes neither tag nor bag.
C9_Back ==
    [][\A c \in Chats :
        (last'.op = "reg_back" /\ last'.c = c)
        => /\ state[c] \in {Reg.NAME, Reg.PATRONYMIC, Reg.GROUP, Reg.GITHUB}
                => /\ state'[c] = Pred(state[c])
                   /\ \A k \in RegKeys : SameField(data[c], data'[c], k)
           /\ state[c] = Reg.SURNAME
                => state'[c] = Reg.SURNAME /\ data'[c] = data[c]]_vars

C9_Witness ==
    /\ last.op = "reg_back"
    /\ last.from = Reg.GITHUB
    /\ state[last.c] = Reg.GROUP
    /\ Has(data[last.c], Reg.GROUP)

\* C10 as stated: after reg_restart the state tag is none and the bag empty.
C10_BagEmptyAfterRestart ==
    \A c \in Chats :
        (last.op = "reg_restart" /\ last.c = c)
        => state[c] = NoState /\ data[c] = EmptyBag

\* C10, amended: after reg_restart the state tag is none and the bag holds
\* the id of the restart prompt and no registration field; a summary, and a
\* stored row, are built from the values typed since the (re)start.
C10_Restart ==
    \A c \in Chats :
        /\ (last.op = "reg_restart" /\ last.c = c)
            => /\ state[c] = NoState
               /\ DOMAIN data[c] = {BOT_MSG_KEY}
               /\ \E m \in chat[c] : m.kind = "restart" /\ m.id = data[c][BOT_MSG_KEY]
        /\ (last.op = "reg_steps" /\ last.c = c /\ state[c] = Reg.CONFIRM)
            => last.text = SummaryOf(entered[c])
        /\ (last.op = "reg_confirm_insert" /\ last.c = c /\ last.res = "success")
            => \E r \in students :
                 /\ r.chat_id = c
                 /\ TupleOf(r) = SummaryTuple(entered[c])
                 /\ r.patronymic = IF entered[c][Reg.PATRONYMIC] = <<"-">>
                                    THEN None ELSE entered[c][Reg.PATRONYMIC]

C10_Witness ==
    /\ last.op = "reg_restart"
    /\ last.from = Reg.CONFIRM
    /\ DOMAIN data[last.c] = {BOT_MSG_KEY}

\* C11: reg_confirm leaves the session cleared (state tag none, no collected
\* field in the data bag) whatever the persistence attempt ends with:
\* success, a duplicate found by the SELECT (ValueError), a failure of the
\* INSERT, or a KeyError while the Student is built.  The students table
\* changes only in the success outcome, by exactly one new row.
C11_ConfirmClearsSession ==
    [][last'.op \in {"reg_confirm", "reg_confirm_insert"} =>
           /\ state'[last'.c] = NoState
           /\ \A k \in RegKeys : ~Has(data'[last'.c], k)
           /\ students' # students =>
                  /\ last'.res = "success"
                  /\ \E r \in students' : students' = students \cup {r}
           /\ last'.res # "success" => students' = students]_vars

\* The INSERT of a confirmed registration failed (the chat is registered
\* already) and the session is cleared all the same.
C11_Witness ==
    /\ last.op = "reg_confirm_insert"
    /\ last.res = "failure"
    /\ state[last.c] = NoState
    /\ data[last.c] = EmptyBag
    /\ HasAllFields(entered[last.c])

\* C12: the Student that reg_confirm builds, and the row it stores, has no
\* patronymic exactly when the patronymic held in the data bag is "-"; any
\* other value of the bag is stored as it is.
C12_PatronymicSentinel ==
    [][/\ (pend[last'.c].kind = "idle" /\ last'.op = "reg_confirm"
               /\ last'.res = "saving") =>
              LET p == data[last'.c][Reg.PATRONYMIC]
                  st == pend'[last'.c].payload
              IN  /\ (st.patronymic = None) <=> (p = <<"-">>)
                  /\ p # <<"-">> => st.patronymic = p
       /\ (pend[last'.c].kind = "save" /\ last'.op = "reg_confirm_insert"
               /\ last'.res = "success") =>
              \E r \in students' \ students :
                  r.patronymic = pend[last'.c].payload.patronymic]_vars

\* A row without patronymic was stored for a user who typed "-".
C12_Witness ==
    /\ last.op = "reg_confirm_insert"
    /\ last.res = "success"
    /\ entered[last.c][Reg.PATRONYMIC] = <<"-">>
    /\ \E r \in students : r.chat_id = last.c /\ r.patronymic = None

(***************************************************************************)
(* The grading poll.                                                       *)
(***************************************************************************)
Terminal == {"updated", "rejected", "http_error", "failure"}

Placeholder(t, ch, kind) == \E m \in ch[t.c] : m.id = t.msg /\ m.kind = kind

\* C13: when the gateway answers n times pending and then updated, the task
\* has issued n + 1 requests and made n waits, and the one placeholder the
\* handler sent is edited once into the result: no message is sent or
\* deleted by the task.  (Counts are exact below MaxPolls.)
C13_PollCounts ==
    [][\A i \in 1..Len(polls) :
           (/\ polls[i].pc = "request"
            /\ polls'[i].pc = "done"
            /\ last'.arg = <<"updated">>
            /\ polls[i].req < MaxPolls) =>
               LET t == polls[i]
               IN  /\ t.req = t.pendings + 1
                   /\ t.waits = t.pendings
                   /\ t.edits = 0 /\ polls'[i].edits = 1
                   /\ Placeholder(t, chat, "checking")
                   /\ Placeholder(t, chat', "result")
                   /\ Ids(chat'[t.c]) = Ids(chat[t.c])
                   /\ \A m \in chat'[t.c] : m.id # t.msg => m \in chat[t.c]]_vars

\* pending, pending, updated: three requests, two waits, one edit.
C13_Witness ==
    /\ last.op = "poll_response"
    /\ last.arg = <<"updated">>
    /\ \E i \in 1..Len(polls) :
           /\ polls[i].pc = "done"
           /\ polls[i].pendings = 2 /\ polls[i].req = 3
           /\ polls[i].waits = 2 /\ polls[i].edits = 1
           /\ Placeholder(polls[i], chat, "result")

\* C14: a request that ends with a dropped connection does to the task what
\* a pending answer does: the task goes to sleep with the placeholder as it
\* was and nothing edited, and its sleep is followed by another request.
C14_DisconnectIsPending ==
    [][\A i \in 1..Len(polls) :
           /\ (polls[i].pc = "request" /\ polls'[i] # polls[i]
                   /\ last'.arg \in {<<"disconnect">>, <<"pending">>}) =>
                  /\ polls' = [polls EXCEPT ![i].pc = "sleep",
                                            ![i].pendings = Inc(@)]
                  /\ chat' = chat
                  /\ last'.text = <<>>
           /\ (polls[i].pc = "sleep" /\ polls'[i] # polls[i]) =>
                  /\ polls'[i].pc = "request"
                  /\ polls'[i].req = Inc(polls[i].req)
                  /\ polls'[i].waits = Inc(polls[i].waits)
                  /\ polls'[i].edits = polls[i].edits]_vars

\* A task sleeps after a dropped connection, its placeholder untouched.
C14_Witness ==
    /\ last.op = "poll_response"
    /\ last.arg = <<"disconnect">>
    /\ \E i \in 1..Len(polls) :
           /\ polls[i].pc = "sleep"
           /\ polls[i].edits = 0
           /\ Placeholder(polls[i], chat, "checking")

\* C15: an answer other than pending (updated, rejected, an HTTP error
\* status, or a failure that leaves no result) makes the task edit its
\* placeholder and return; a returned task has edited exactly once and
\* never requests, waits or edits again.
C15_TerminalStops ==
    /\ [](\A i \in 1..Len(polls) :
              polls[i].edits = IF polls[i].pc = "done" THEN 1 ELSE 0)
    /\ [][\A i \in 1..Len(polls) :
              /\ (polls[i].pc = "request" /\ polls'[i] # polls[i]
                      /\ last'.arg[1] \in Terminal) =>
                     /\ polls'[i] = [polls[i] EXCEPT !.pc = "done", !.edits = 1]
                     /\ \E m \in chat'[polls[i].c] :
                            /\ m.id = polls[i].msg
                            /\ m.kb = home_kb
                            /\ m.kind \in {"result", "server_error",
                                           "grading_error"}
              /\ polls[i].pc = "done" => polls'[i] = polls[i]]_vars

\* The request failed, the placeholder shows the server error, the task
\* has returned.
C15_Witness ==
    /\ last.op = "poll_response"
    /\ last.arg = <<"failure">>
    /\ \E i \in 1..Len(polls) :
           /\ polls[i].pc = "done"
           /\ polls[i].edits = 1
           /\ Placeholder(polls[i], chat, "server_error")

PcOf(i) == IF i <= Len(polls) THEN polls[i].pc ELSE "none"

\* C16: a task returns only on an answer other than pending or disconnect,
\* and does so on the first such answer; until then every request is
\* answered and every wait is followed by another request, however many
\* requests the task has made already.
C16_PollsUntilTerminal ==
    /\ [][\A i \in 1..Len(polls) :
              (polls[i].pc # "done" /\ polls'[i].pc = "done") <=>
                  (polls[i].pc = "request" /\ polls'[i] # polls[i]
                       /\ last'.arg[1] \in Terminal)]_vars
    /\ \A i \in 1..MaxTasks :
           /\ (PcOf(i) = "sleep") ~> (PcOf(i) = "request")
           /\ (PcOf(i) = "request") ~> (PcOf(i) \in {"sleep", "done"})

\* A task that has made MaxPolls requests and got MaxPolls pending answers
\* is still polling.
C16_Witness ==
    \E i \in 1..Len(polls) :
        /\ polls[i].pc = "request"
        /\ polls[i].req = MaxPolls
        /\ polls[i].pendings = MaxPolls

\* C17: lab_selected returns, its button press acknowledged, with the task
\* it created suspended on its first request; no step of a task suspends or
\* resumes a handler or touches a session, so no handler of any chat ever
\* waits for a task.
C17_HandlerReturns ==
    /\ [](\A c \in Chats : pend[c] = Idle)
    /\ [][/\ (last'.op = "lab_selected" /\ Len(polls') > Len(polls)) =>
                 /\ last'.res = "ok"
                 /\ pend'[last'.c] = Idle
                 /\ polls'[Len(polls')].c = last'.c
                 /\ polls'[Len(polls')].pc = "request"
          /\ polls' # polls =>
                 pend' = pend /\ state' = state /\ data' = data]_vars

\* A handler of the chat has just run to completion while a task of the same
\* chat, two requests made, is suspended.
C17_Witness ==
    /\ last.op = "course_selected"
    /\ last.res = "ok"
    /\ pend[last.c] = Idle
    /\ \E i \in 1..Len(polls) :
           /\ polls[i].c = last.c
           /\ polls[i].pc \in {"request", "sleep"}
           /\ polls[i].waits >= 1

\* C18 as stated: no two tasks of one chat for one lab are active at once.
C18_SinglePollPerLab ==
    \A i, j \in 1..Len(polls) :
        (i < j /\ Active(i) /\ Active(j)) =>
            <<polls[i].c, polls[i].course, polls[i].lab>>
                # <<polls[j].c, polls[j].course, polls[j].lab>>

\* C19 as stated: after a handler step that completed, at most one message
\* of the bot is live in the chat.
C19_OneLiveMessage ==
    (last.op # "init" /\ last.res = "ok") => Cardinality(chat[last.c]) <= 1

C21_CancelElsewhereCloses ==
    [][(last'.op = "admin_cancel" /\ state[last'.c] # AdminMenu.CONFIRM) =>
           LET c == last'.c
           IN  /\ state'[c] = NoState
               /\ data'[c] = EmptyBag
               /\ Cardinality(chat'[c]) = Cardinality(chat[c]) - 1
               /\ chat'[c] \subseteq chat[c]
               /\ Has(data[c], BOT_MSG_KEY) =>
                      ~\E m \in chat'[c] : m.id = data[c][BOT_MSG_KEY]]_vars

\* The password prompt was cancelled: the panel is gone, the session is clear.
C21_Witness ==
    /\ last.op = "admin_cancel"
    /\ last.from = AdminLogin.PASSWORD
    /\ last.res = "closed"
    /\ state[last.c] = NoState
    /\ data[last.c] = EmptyBag
    /\ chat[last.c] = {}

\* C22 as stated: a confirmed course deletion the server accepted leaves
\* the state tag COURSES with the refreshed course list rendered; one the
\* server refused leaves the state tag CONFIRM and the chat as it was.
C22_DeleteReturnsToCourses ==
    [][(last'.op = "do_course_del" /\ last'.gw # <<>>) =>
           LET c == last'.c
           IN  IF srvCourses' # srvCourses
               THEN /\ state'[c] = AdminMenu.COURSES
                    /\ last'.text = CoursesText(srvCourses')
               ELSE /\ state'[c] = AdminMenu.CONFIRM
                    /\ chat' = chat]_vars

\* C23 as stated: a file received in state EDIT under a valid token and
\* accepted by the server leaves the state tag COURSES with the refreshed
\* course list rendered.
C23_UploadReturnsToCourses ==
    [][(/\ last'.op = "upload_new_course"
        /\ state[last'.c] = AdminMenu.EDIT
        /\ last'.guard = "passed"
        /\ srvCourses' # srvCourses) =>
           /\ state'[last'.c] = AdminMenu.COURSES
           /\ last'.text = CoursesText(srvCourses')]_vars

\* C24 as stated: a message that is not a file, received in state EDIT,
\* leaves the state tag COURSES when a session token is stored and MAIN
\* when none is.
C24_CancelUploadState ==
    [][(/\ last'.op = "cancel_course_upload"
        /\ state[last'.c] = AdminMenu.EDIT
        /\ admin_sessions.exists) =>
           state'[last'.c] = IF get_cookie(admin_sessions) # <<>>
                             THEN AdminMenu.COURSES ELSE AdminMenu.MAIN]_vars

\* C25 as stated: when admin_logout has finished, whatever the remote
\* logout call did, table admin_sessions holds no row.
C25_LogoutPurges ==
    last.op = "admin_logout_clear" => admin_sessions.rows = <<>>

GuardedHandlers == {"admin_groups", "admin_courses", "back_courses", "add_course_start"}

\* C26: when the auth guard finds no token or an expired one in
\* admin_groups, admin_courses, back_courses or add_course_start, the
\* handler ends with the state tag, the data bag and the messages of the
\* chat as they were: only the alert is shown.
C26_GuardFailureAborts ==
    [][(last'.op \in GuardedHandlers /\ last'.guard \in {"relogin", "expired"}) =>
           /\ state' = state
           /\ data' = data
           /\ chat' = chat
           /\ last'.text = <<>>
           /\ last'.gw = <<>>]_vars

\* "Back" was pressed on the upload prompt after the expired token had
\* been purged: the guard found no token and the conversation stays in EDIT.
C26_Witness ==
    /\ last.op = "back_courses"
    /\ last.guard = "relogin"
    /\ state[last.c] = AdminMenu.EDIT
    /\ admin_sessions.rows = <<>>
    /\ \E m \in chat[last.c] : m.kind = "upload_prompt"

\* C27 as stated: when del_student runs and the student named in the
\* confirmation prompt is no longer in the group, no row of the registry is
\* deleted, an error is reported, and the state tag and the data bag stay
\* as they were.
C27_StaleTargetDeletesNothing ==
    [][(/\ last'.op = "del_student"
        /\ Has(data[last'.c], "cur_group")
        /\ Has(data[last'.c], "del_student_idx")
        /\ Has(data[last'.c], "students")
        /\ data[last'.c]["del_student_idx"] < Len(data[last'.c]["students"])
        /\ get_by_fio(students, data[last'.c]["cur_group"],
                      data[last'.c]["students"][data[last'.c]["del_student_idx"] + 1])
               = <<>>) =>
           /\ students' = students
           /\ last'.res = "not_found"
           /\ state' = state
           /\ data' = data]_vars

\* C28: after del_group has run for group code G (the code it takes from
\* the callback identifier), no row of the registry has group_code G, every
\* row of another group is still there unchanged, and the group list
\* rendered next neither names G nor carries a button for it.
C28_GroupDeleted ==
    [][last'.op = "del_group" =>
           LET c == last'.c
               G == replace(last'.arg, cb_adm_del_group_yes_)
           IN  /\ \A r \in students' : r.group_code # G
               /\ \A r \in students : r.group_code # G => r \in students'
               /\ students' \subseteq students
               /\ state'[c] = AdminMenu.GROUPS
               /\ last'.text = GroupsText(students')
               /\ \A i \in 1..Len(group_codes(students')) :
                      group_codes(students')[i] # G
               /\ \E m \in chat'[c] :
                      /\ m.id = data'[c][BOT_MSG_KEY]
                      /\ m.kb = groups_kb(group_codes(students'))
                      /\ (cb_adm_group_ \o G) \notin m.kb]_vars

\* A group of one student was deleted; the student of the other group is
\* still in the registry and that group is on the list.
C28_Witness ==
    /\ last.op = "del_group"
    /\ state[last.c] = AdminMenu.GROUPS
    /\ Cardinality(students) = 1
    /\ \A r \in students : r.group_code # replace(last.arg, cb_adm_del_group_yes_)
    /\ last.text = GroupsText(students)
    /\ Len(group_codes(students)) = 1

\* the position-independent course references of a row
NoDuplicates(courses) ==
    \A i, j \in 1..Len(courses) :
        (courses[i].name = courses[j].name
            /\ courses[i].semester = courses[j].semester) => i = j

\* C29: selecting a course whose (name, semester) is in the student's
\* course list already leaves the registry as it was and sends no register
\* request; and whatever courses have been selected, no course list of the
\* registry holds two references of equal (name, semester).
C29_IdempotentCourseRegistration ==
    /\ [][last'.op = "course_selected" =>
            \A r \in students, co \in get_courses(srvCourses, TRUE) :
                (/\ r.chat_id = last'.c
                 /\ cb_course_ \o co.id = last'.arg
                 /\ \E i \in 1..Len(r.courses) :
                        /\ r.courses[i].name = co.name
                        /\ r.courses[i].semester = co.semester) =>
                    /\ students' = students
                    /\ last'.gw = <<>>]_vars
    /\ [](\A r \in students : NoDuplicates(r.courses))

\* The course of the list was selected again: the labs are shown, no
\* request was sent and the list holds the one reference.
C29_Witness ==
    /\ last.op = "course_selected"
    /\ last.res = "ok"
    /\ last.gw = <<>>
    /\ \E r \in students : r.chat_id = last.c /\ Len(r.courses) = 1

\* C30 as stated: no handler ends with the exception of a remote call that
\* failed, be it a call of APIClient or of AdminAPI.
C30_NoGatewayException ==
    last.res # "ClientError"

\* C31 as stated: when reg_back re-renders, the bag it has stored no longer
\* holds the last-message-id key, so the render finds no message id to
\* delete.
C31_BackDropsMessageKey ==
    [][(last'.op = "reg_back" /\ last'.res = "ok") =>
           ~Has(reg_back_bag(data[last'.c]), BOT_MSG_KEY)]_vars

\* the messages a step has added to the chat of its conversation
NewMessages == chat'[last'.c] \ chat[last'.c]

\* the try block of the render that has run was left by an exception
TryRaised(d, f) ==
    \/ f[2] = "fail"
    \/ Has(d, BOT_MSG_KEY) /\ f[1] = "student" /\ f[3] = "other"
    \/ f[4] = "fail"
    \/ f[5] = "fail"

\* C32 as stated: when the store works and the send succeeds, the render
\* leaves one new message in the chat and its id under the
\* last-message-id key, whatever became of the delete of the previous
\* message.
C32_SentIdRecorded ==
    [][(/\ last'.op = "_send"
        /\ last'.arg[2] = "ok" /\ last'.arg[4] = "ok" /\ last'.arg[5] = "ok") =>
           /\ Cardinality(NewMessages) = 1
           /\ Has(data'[last'.c], BOT_MSG_KEY)
           /\ \A m \in NewMessages : data'[last'.c][BOT_MSG_KEY] = m.id]_vars

\* C33 as stated: the render never raises; when the delete, the send or
\* the id update fails it takes the fallback and leaves the stored id as it
\* was; when the fallback send fails as well it returns normally.
C33_FallbackOnAnyFailure ==
    [][last'.op = "_send" =>
           /\ last'.res # "raised"
           /\ (\/ Has(data[last'.c], BOT_MSG_KEY) /\ last'.arg[3] # "ok"
               \/ last'.arg[4] = "fail"
               \/ last'.arg[5] = "fail") =>
                  /\ last'.res \in {"fallback", "logged"}
                  /\ data'[last'.c] = data[last'.c]]_vars

\* C33, amended: the render never raises.  The fallback is taken when
\* the bag cannot be read, the send fails, the id update fails, or, in
\* handlers/student.py only, the delete fails with an exception other than
\* the three Telegram errors _cleanup_prev catches: then one fallback send
\* is made, the stored bag stays as it was, and a failure of the fallback
\* is logged.  Any other failure of the delete is ignored: the message is
\* sent once and its id recorded.
C33_FallbackIsTerminal ==
    [][last'.op = "_send" =>
           LET c == last'.c
               f == last'.arg
               primary == IF ~(f[2] = "fail"
                               \/ (Has(data[c], BOT_MSG_KEY)
                                     /\ f[1] = "student" /\ f[3] = "other"))
                             /\ f[4] = "ok" THEN 1 ELSE 0
               fallback == IF f[6] = "ok" THEN 1 ELSE 0
           IN  /\ last'.res \in {"sent", "fallback", "logged"}
               /\ TryRaised(data[c], f) =>
                      /\ last'.res = IF f[6] = "ok" THEN "fallback" ELSE "logged"
                      /\ data'[c] = data[c]
                      /\ Cardinality(NewMessages) = primary + fallback
               /\ ~TryRaised(data[c], f) =>
                      /\ last'.res = "sent"
                      /\ Cardinality(NewMessages) = 1
                      /\ \A m \in NewMessages : data'[c][BOT_MSG_KEY] = m.id]_vars

\* The send and the fallback send both failed: the render has returned,
\* nothing was sent and the stored id is that of the message still shown.
C33_Witness ==
    /\ last.op = "_send"
    /\ last.res = "logged"
    /\ last.arg[4] = "fail"
    /\ last.arg[6] = "fail"
    /\ Has(data[last.c], BOT_MSG_KEY)
    /\ \E m \in chat[last.c] : m.id = data[last.c][BOT_MSG_KEY]

\* C34 as stated: the row a confirmed delete removes from the registry is
\* the row of the student whose name the confirmation prompt showed, and
\* no other row is removed.
C34_DeletedIsShown ==
    [][(last'.op = "del_student" /\ last'.res = "ok"
            /\ Has(data[last'.c], "students")) =>
           LET d == data[last'.c]
               shown == d["students"][d["del_student_idx"] + 1]
           IN  /\ Cardinality(students \ students') = 1
               /\ students' \subseteq students
               /\ \A r \in students \ students' :
                      r.group_code = d["cur_group"] /\ fio_of(r) = shown]_vars

\* C35 as stated: no handler awaits a gateway method on a client session
\* that has been closed, so no handler ends with the RuntimeError aiohttp
\* raises for a request on a closed session.
C35_SessionOpenAtEveryCall ==
    last.res # "RuntimeError"

\* the kind of the confirmation prompt the panel of chat c shows
PromptKind(c) ==
    IF Has(data[c], BOT_MSG_KEY) /\ \E m \in chat[c] : m.id = data[c][BOT_MSG_KEY]
    THEN (CHOOSE m \in chat[c] : m.id = data[c][BOT_MSG_KEY]).kind
    ELSE "none"

\* C36 as stated: admin_cancel pressed in CONFIRM leads back to the list
\* the confirmation was opened from: the students of the current group
\* when a student or a group was to be deleted, the course list (the token
\* being valid) when a course was to be deleted.
C36_CancelReturnsToOrigin ==
    [][(last'.op = "admin_cancel" /\ state[last'.c] = AdminMenu.CONFIRM) =>
           LET c == last'.c
           IN  /\ PromptKind(c) \in {"confirm_del_student", "confirm_del_group"} =>
                      state'[c] = AdminMenu.STUDENTS
               /\ (PromptKind(c) = "confirm_course_del"
                     /\ _ensure_admin(admin_sessions, now).res = "passed") =>
                      state'[c] = AdminMenu.COURSES]_vars

\* the values of the state tags of the admin menu
AdminMenuStates ==
    {AdminMenu.MAIN, AdminMenu.GROUPS, AdminMenu.STUDENTS, AdminMenu.STUDENT_INFO,
     AdminMenu.COURSES, AdminMenu.COURSE_INFO, AdminMenu.EDIT, AdminMenu.CONFIRM}

\* conversation c is inside the admin menu: its state tag is one of the
\* menu, or it is shown a button of handlers/admin.py other than "cancel"
HasPanel(c) ==
    \/ state[c] \in AdminMenuStates
    \/ \E m \in chat[c] : \E d \in m.kb :
           d # cb_admin_cancel /\ Route(d) # "none"

\* C37: a conversation gets into the admin menu only by the step that
\* completes its own successful login, and a student, a group or a course
\* is deleted and a course uploaded only from a conversation that is in the
\* menu: a login of one conversation opens nothing to another.
C37_EffectsNeedOwnLogin ==
    [][/\ \A c \in Chats :
              (HasPanel(c)' /\ ~HasPanel(c)) =>
                  last'.op = "admin_password_done" /\ last'.c = c
       /\ (students' # students \/ srvCourses' # srvCourses) =>
              /\ last'.op \in {"del_student", "del_group", "do_course_del",
                               "upload_new_course"}
              /\ HasPanel(last'.c)]_vars

\* A conversation that logged in has deleted the course while the other
\* one, whose password was refused, is still at the password prompt.
C37_Witness ==
    /\ last.op = "do_course_del"
    /\ srvCourses = {}
    /\ HasPanel(last.c)
    /\ \E c \in Chats \ {last.c} :
           /\ state[c] = AdminLogin.PASSWORD
           /\ ~HasPanel(c)
           /\ \E m \in chat[c] : m.kind = "login_error"

\* C38 as stated: no step of a course_selected handler loses a course
\* reference that is stored in a student record; in particular, when two
\* handlers of one conversation have registered the student for two
\* courses, the record holds both references.
C38_NoReferenceLost ==
    [][last'.op = "course_selected_end" =>
           \A r \in students, q \in students' :
               r.id = q.id =>
                   \A i \in 1..Len(r.courses) :
                       \E j \in 1..Len(q.courses) : q.courses[j] = r.courses[i]]_vars

\* C39 as stated: admin_logout purges only the token it read; a token that
\* a login stored while the revoke call was in flight is still stored when
\* the logout handler has finished.
C39_LogoutKeepsNewToken ==
    [][(/\ last'.op = "admin_logout_clear"
        /\ last'.res = "ok"
        /\ admin_sessions.rows # <<>>
        /\ get_cookie(admin_sessions) # pend[last'.c].payload) =>
           admin_sessions'.rows = admin_sessions.rows]_vars

\* C40 as stated: a conversation in the registration state at position k
\* of SURNAME, NAME, PATRONYMIC, GROUP, GITHUB, CONFIRM holds every field
\* of an earlier position in its bag; in CONFIRM it holds all five.
C40_EarlierFieldsHeld ==
    \A c \in Chats :
        /\ InOrder(state[c]) =>
               \A i \in 1..(IndexOf(ORDER, state[c]) - 1) : Has(data[c], ORDER[i])
        /\ state[c] = Reg.CONFIRM => HasAllFields(data[c])

====
